---- MODULE Spec2Model ----
(***************************************************************************)
(* Model of the sandbox tool (github.com/jhernand/sandbox):                *)
(*   - the cleaner (pkg/cleaner and the "cleaner" command),                *)
(*   - the server's authentication middleware and test handler,            *)
(*   - the runner (RunnerBuilder.Build, Runner.Run, Runner.Destroy and the *)
(*     "runner" command) together with the readiness waiters.              *)
(* Strings whose content matters (the Authorization header, the token) are *)
(* sequences of one-character strings.                                     *)
(***************************************************************************)
EXTENDS Integers, Sequences, FiniteSets, TLC

\* ------------------------------------------------------------------ bounds
\* Largest value of the model clock.
MaxTime == 2
\* Largest --wait value given to the cleaner command (0 is "not given").
MaxWait == 2
\* Number of requests the server receives in one run.
MaxRequests == 2
\* Number of distinct test identifiers uuid.NewRandom can return.
MaxDirs == 2
\* Number of connections the server serves at the same time.
NumHandlers == 2
\* Largest number of events a watch delivers before its channel is closed.
MaxEvents == 2
\* Largest number of test binaries found in the working directory.
MaxBinaries == 2

\* ------------------------------------------------------- program constants
\* WaitForServer: `for i := 0; i < 60; i++`.
ProbeLimit == 60
\* The cleaner pod is started with `--wait=1m`; the clock counts minutes.
CleanerPodWait == 1

None == "none"

VARIABLES
    \* the model clock
    now,
    \* --- cleaner command and Cleaner object
    clnWait,        \* args.wait / Cleaner.wait
    clnPc,          \* position of the cleaner command's execute
    clnExit,        \* exit code of the cleaner command, -1 while it runs
    sigPending,     \* a SIGTERM/SIGINT is buffered in the signals channel
    stopCh,         \* Cleaner.stop: "nil", "open" or "closed"
    gPc,            \* the goroutine started by Cleaner.Start
    timer,          \* Cleaner.clean: "none", "armed", "fired" or "stopped"
    timerStart,     \* value of the clock when the timer was created
    timerC,         \* a value is buffered in Cleaner.clean.C
    clnDeletes,     \* clock values at which Cleaner.do issued the delete call
    stopCalls,      \* clock values at which execute called Stop() (line 101)
    stopReturned,   \* the Stop() call of line 101 returned
    \* --- server: authentication middleware, router and test handler
    srvToken,       \* authHandler.token, the configured token
    hPc,            \* per connection: position of the handler chain
    hReq,           \* per connection: the request being served
    hResp,          \* per connection: the response written, NoResp if none
    hDir,           \* per connection: testDir, 0 before it is computed
    hCode,          \* per connection: testCode
    hEff,           \* per connection: the side effects performed for the request
    fs,             \* the work directory: test directory -> its files
    nReq,           \* number of requests received so far
    \* --- runner command, RunnerBuilder and Runner
    keep,           \* args.keep / RunnerBuilder.keep / Runner.keep
    rPc,            \* position of the runner command's execute
    rExit,          \* exit code of the runner command, -1 while it runs
    cluster,        \* the resources that exist in the project
    createCalls,    \* the resources the runner issued a create call for
    lastCreate,     \* the create call of the last step of Build and its answer
    rToken,         \* the token generated by ensureServer, <<>> before
    rAddr,          \* Server.address, "" until the server object is set
    probes,         \* WaitForServer: the loop counter i
    slept,          \* WaitForServer: the seconds spent in time.Sleep so far
    lastProbe,      \* WaitForServer: the outcome of the last probe, "" before
    waitTimedOut,   \* the waits whose watch ended without a ready snapshot
    buildErr,       \* a step of Build returned an error
    binaries,       \* Run: the sorted list of test binaries
    bIdx,           \* Run: index of the binary of the current iteration
    outcomes,       \* Run: what happened to each binary processed so far
    sent,           \* the binaries a request was sent for, in order
    inFlight,       \* a request of the runner is awaiting its response
    failed,         \* Run: the failure counter
    runErr,         \* Run: the named result err is not nil
    rDestroyCalls,  \* number of calls of Runner.Destroy
    rDeletes,       \* number of project delete calls issued by Runner.Destroy
    \* --- one call of WaitForPod or WaitForRoute
    wPc,            \* position of the call: "off", "range" or "returned"
    wKind,          \* "Pod" for WaitForPod, "Route" for WaitForRoute
    wSeen,          \* the events received from the channel so far
    wObj,           \* the named result pod / route, NoObj for nil
    wErr,           \* the named result err, "nil" for nil
    wStops,         \* number of calls of wtch.Stop()
    wLate,          \* number of events received after wtch.Stop()
    \* --- the environment of one test subprocess
    ePc,            \* "off", "env" while testEnv is built, "ran" after Run
    eEnviron,       \* os.Environ() of the server process
    eReqEnv,        \* requestBody.Env: name -> value
    eTodo,          \* the names the range over requestBody.Env has yet to visit
    eTestEnv,       \* testEnv / testCommand.Env
    eChild,         \* the environment the subprocess was started with
    \* --- the database helper of one Sandbox
    dbPc,           \* position of the current call of Sandbox.Database, "idle" between calls
    dbReady,        \* Sandbox.dbReady
    dbAdminUser,    \* Sandbox.dbAdminUser
    dbAdminPassword,\* Sandbox.dbAdminPassword
    dbAddress,      \* Sandbox.dbAddress
    dbSecret,       \* the secret database-admin of the project: its existence and Data
    dbObjects,      \* the pod and the service of the database that exist in the project
    dbId,           \* the password generated by the current ensureDBCredentials
    dbCredsOk,      \* the last ensureDBCredentials returned nil
    dbSteps,        \* the steps of the current ensureDBServer that returned no error
    dbCalls,        \* number of calls of Sandbox.Database
    dbProvisions,   \* number of times ensureDBServer set dbReady
    dbErr           \* what the last call of Sandbox.Database returned

clnVars == <<clnWait, clnPc, clnExit, sigPending, stopCh, gPc, timer,
             timerStart, timerC, clnDeletes, stopCalls, stopReturned>>

srvVars == <<srvToken, hPc, hReq, hResp, hDir, hCode, hEff, fs, nReq>>

runVars == <<keep, rPc, rExit, cluster, createCalls, lastCreate, rToken, rAddr,
             probes, slept, lastProbe, waitTimedOut, buildErr, binaries, bIdx, outcomes, sent, inFlight,
             failed, runErr, rDestroyCalls, rDeletes>>

waitVars == <<wPc, wKind, wSeen, wObj, wErr, wStops, wLate>>

envVars == <<ePc, eEnviron, eReqEnv, eTodo, eTestEnv, eChild>>

dbVars == <<dbPc, dbReady, dbAdminUser, dbAdminPassword, dbAddress, dbSecret,
            dbObjects, dbId, dbCredsOk, dbSteps, dbCalls, dbProvisions, dbErr>>

vars == <<now, clnVars, srvVars, runVars, waitVars, envVars, dbVars>>

\* What the actions of one component leave alone.
notCln == <<srvVars, runVars, waitVars, envVars, dbVars>>
notSrv == <<now, clnVars, runVars, waitVars, envVars, dbVars>>
notWait == <<now, clnVars, srvVars, runVars, envVars, dbVars>>
notEnv == <<now, clnVars, srvVars, runVars, waitVars, dbVars>>
notDb == <<now, clnVars, srvVars, runVars, waitVars, envVars>>

\* ================================================================ cleaner

\* A goroutine is blocked sending on Cleaner.stop (Cleaner.Stop, `c.stop <- true`).
StopSenderWaiting == clnPc = "stop"

\* The timer created by time.NewTimer(c.wait) is due: timers never fire early.
TimerDue == timer = "armed" /\ now >= timerStart + clnWait

\* execute, lines 54-58: --wait is mandatory.
ClnCheck ==
    /\ clnPc = "check"
    /\ IF clnWait = 0
         THEN clnPc' = "exit" /\ clnExit' = 1
         ELSE clnPc' = "build" /\ UNCHANGED clnExit
    /\ UNCHANGED <<notCln, now, clnWait, sigPending, stopCh, gPc, timer, timerStart,
                   timerC, clnDeletes, stopCalls, stopReturned>>

\* execute, lines 65-72, with CleanerBuilder.Build: reading the namespace file
\* or creating the API client may fail (ok = FALSE); no defer is registered yet.
ClnBuild(ok) ==
    /\ clnPc = "build"
    /\ IF ok /\ clnWait # 0
         THEN clnPc' = "start" /\ UNCHANGED clnExit
         ELSE clnPc' = "exit" /\ clnExit' = 1
    /\ UNCHANGED <<notCln, now, clnWait, sigPending, stopCh, gPc, timer, timerStart,
                   timerC, clnDeletes, stopCalls, stopReturned>>

\* Cleaner.Start: creates the stop channel and the timer and spawns the
\* goroutine; returns nil, so execute goes on to wait for a signal.
ClnStart ==
    /\ clnPc = "start"
    /\ stopCh' = "open"
    /\ timer' = "armed"
    /\ timerStart' = now
    /\ gPc' = "spawned"
    /\ clnPc' = "wait"
    /\ UNCHANGED <<notCln, now, clnWait, clnExit, sigPending, timerC, clnDeletes,
                   stopCalls, stopReturned>>

\* The goroutine is scheduled and reaches its select statement.
GoEnterSelect ==
    /\ gPc = "spawned"
    /\ gPc' = "select"
    /\ UNCHANGED <<notCln, now, clnWait, clnPc, clnExit, sigPending, stopCh, timer,
                   timerStart, timerC, clnDeletes, stopCalls, stopReturned>>

\* The runtime timer expires and puts a value in clean.C.
TimerFire ==
    /\ TimerDue
    /\ timer' = "fired"
    /\ timerC' = TRUE
    /\ UNCHANGED <<notCln, now, clnWait, clnPc, clnExit, sigPending, stopCh, gPc,
                   timerStart, clnDeletes, stopCalls, stopReturned>>

\* time.Timer.Stop: prevents a timer that has not fired from firing.
TimerStop(t) == IF t = "armed" THEN "stopped" ELSE t

\* select, case <-c.stop, with a sender: the send of Cleaner.Stop completes,
\* Stop returns nil and execute returns 0 (its deferred calls are next).
GoRecvStop ==
    /\ gPc = "select"
    /\ StopSenderWaiting
    /\ stopCh = "open"
    /\ timer' = TimerStop(timer)
    /\ gPc' = "stopped"
    /\ clnPc' = "deferDestroy"
    /\ stopReturned' = TRUE
    /\ UNCHANGED <<notCln, now, clnWait, clnExit, sigPending, stopCh, timerStart,
                   timerC, clnDeletes, stopCalls>>

\* select, case <-c.stop, on a closed channel: the receive yields at once.
GoRecvClosed ==
    /\ gPc = "select"
    /\ stopCh = "closed"
    /\ timer' = TimerStop(timer)
    /\ gPc' = "stopped"
    /\ UNCHANGED <<notCln, now, clnWait, clnPc, clnExit, sigPending, stopCh, timerStart,
                   timerC, clnDeletes, stopCalls, stopReturned>>

CleanerDoNothing(deletes, t) == deletes

CleanerDoRetry(deletes, t) == Append(Append(deletes, t), t)

\* Cleaner.do: one delete call of the project; a failure is only logged.
CleanerDo(deletes, t) == Append(deletes, t)

\* select, case <-c.clean.C: the goroutine calls c.do() and ends. The delete
\* call answered with success removes the project and everything in it; any
\* other answer is logged and leaves the project as it is.
GoRecvTimer(res) ==
    /\ gPc = "select"
    /\ timerC
    /\ timerC' = FALSE
    /\ clnDeletes' = CleanerDo(clnDeletes, now)
    /\ cluster' = IF res = "ok" THEN {} ELSE cluster
    /\ gPc' = "fired"
    /\ UNCHANGED <<srvVars, waitVars, envVars, dbVars, keep, rPc, rExit,
                   createCalls, lastCreate, rToken, rAddr, probes, slept, lastProbe,
                   waitTimedOut, buildErr, binaries, bIdx, outcomes, sent,
                   inFlight, failed, runErr, rDestroyCalls, rDeletes>>
    /\ UNCHANGED <<now, clnWait, clnPc, clnExit, sigPending, stopCh, timer,
                   timerStart, stopCalls, stopReturned>>

\* A SIGTERM or SIGINT is delivered to the cleaner process (signal.Notify
\* with a channel of capacity 1).
ClnSignal ==
    /\ clnPc \in {"build", "start", "wait"}
    /\ ~sigPending
    /\ sigPending' = TRUE
    /\ UNCHANGED <<notCln, now, clnWait, clnPc, clnExit, stopCh, gPc, timer, timerStart,
                   timerC, clnDeletes, stopCalls, stopReturned>>

\* execute, lines 97-101: `<-signals` returns and Stop() is called; the call
\* blocks in `c.stop <- true` until the goroutine receives.
ClnRecvSignal ==
    /\ clnPc = "wait"
    /\ sigPending
    /\ sigPending' = FALSE
    /\ clnPc' = "stop"
    /\ stopCalls' = Append(stopCalls, now)
    /\ UNCHANGED <<notCln, now, clnWait, clnExit, stopCh, gPc, timer, timerStart, timerC,
                   clnDeletes, stopReturned>>

\* Cleaner.Destroy: close(c.stop); closing a nil or closed channel panics.
CleanerDestroy(ch) == IF ch = "open" THEN "closed" ELSE "panic"

\* The deferred destroy() of execute (registered last, so run first).
ClnDeferDestroy ==
    /\ clnPc = "deferDestroy"
    /\ IF CleanerDestroy(stopCh) = "panic"
         THEN clnPc' = "panic" /\ clnExit' = 2 /\ UNCHANGED stopCh
         ELSE clnPc' = "deferStop" /\ stopCh' = CleanerDestroy(stopCh)
                /\ UNCHANGED clnExit
    /\ UNCHANGED <<notCln, now, clnWait, sigPending, gPc, timer, timerStart, timerC,
                   clnDeletes, stopCalls, stopReturned>>

\* The deferred stop() of execute (registered first, so run last): it calls
\* Cleaner.Stop again; a send on a closed channel panics, a send on an open
\* channel waits for a receiver.
ClnDeferStop ==
    /\ clnPc = "deferStop"
    /\ stopCh = "closed"
    /\ clnPc' = "panic"
    /\ clnExit' = 2
    /\ UNCHANGED <<notCln, now, clnWait, sigPending, stopCh, gPc, timer, timerStart,
                   timerC, clnDeletes, stopCalls, stopReturned>>

\* A caller of the Cleaner API calls Destroy without having called Stop, on
\* a cleaner that was built and not started ("start") or that was started
\* ("wait").
ApiDestroy ==
    /\ clnPc \in {"start", "wait"}
    /\ IF CleanerDestroy(stopCh) = "panic"
         THEN clnPc' = "panic" /\ clnExit' = 2 /\ UNCHANGED stopCh
         ELSE clnPc' = "destroyed" /\ stopCh' = CleanerDestroy(stopCh)
                /\ UNCHANGED clnExit
    /\ UNCHANGED <<notCln, now, clnWait, sigPending, gPc, timer, timerStart, timerC,
                   clnDeletes, stopCalls, stopReturned>>

\* The state of a cleaner process before its first step.
ClnFresh ==
    /\ clnExit = -1
    /\ sigPending = FALSE
    /\ stopCh = "nil"
    /\ gPc = None
    /\ timer = None
    /\ timerStart = 0
    /\ timerC = FALSE
    /\ clnDeletes = <<>>
    /\ stopCalls = <<>>
    /\ stopReturned = FALSE

\* An armed timer whose deadline lies ahead.
TimerPending == timer = "armed" /\ now < timerStart + clnWait

\* The clock advances, whatever the goroutines are doing.
Tick ==
    /\ now < MaxTime \/ TimerPending
    /\ now' = now + 1
    /\ UNCHANGED <<clnVars, srvVars, runVars, waitVars, envVars, dbVars>>

\* The steps the cleaner command takes by itself once its process runs: the
\* steps of execute, of the goroutine and of the timer.
ClnSteps ==
    \/ ClnCheck
    \/ \E ok \in BOOLEAN : ClnBuild(ok)
    \/ ClnStart
    \/ GoEnterSelect
    \/ TimerFire
    \/ GoRecvStop
    \/ \E res \in {"ok", "error"} : GoRecvTimer(res)
    \/ ClnRecvSignal
    \/ ClnDeferDestroy
    \/ ClnDeferStop

\* The cleaner command: its own steps, and the signals that may or may not
\* be sent to it.
ClnNext ==
    \/ ClnSteps
    \/ ClnSignal

\* ================================================================= server

\* The character strings of the model.
StrBearer == <<"B", "e", "a", "r", "e", "r">>
StrLowerBearer == <<"b", "e", "a", "r", "e", "r">>
StrUpperBearer == <<"B", "E", "A", "R", "E", "R">>
StrBasic == <<"B", "a", "s", "i", "c">>
TokenA == <<"t", "1">>
TokenB == <<"t", "2">>
Space == " "

\* The tokens the server can be configured with (never empty: Build, line 175).
Tokens == {TokenA, TokenB}

\* Values of the Authorization header; <<>> is a request without the header.
AuthHeaders ==
    { <<>>,
      StrBearer,
      StrBearer \o <<Space>>,
      StrBearer \o <<Space>> \o TokenA,
      StrLowerBearer \o <<Space>> \o TokenA,
      StrUpperBearer \o <<Space>> \o TokenB,
      StrBearer \o <<Space>> \o TokenB,
      StrBasic \o <<Space>> \o TokenA,
      StrBearer \o <<Space, Space>> \o TokenA,
      StrBearer \o <<Space>> \o TokenA \o <<Space>>,
      <<Space>> \o StrBearer \o <<Space>> \o TokenA,
      StrBearer \o <<Space>> \o TokenA \o <<Space>> \o TokenB,
      StrBearer \o TokenA,
      TokenA }

\* strings.Split(s, sep) for a one-character separator: the substrings between
\* the separators; n+1 substrings for n separators, empty ones included.
RECURSIVE SplitFrom(_, _, _, _)
SplitFrom(s, sep, i, cur) ==
    IF i > Len(s) THEN <<cur>>
    ELSE IF s[i] = sep THEN <<cur>> \o SplitFrom(s, sep, i + 1, <<>>)
    ELSE SplitFrom(s, sep, i + 1, Append(cur, s[i]))

Split(s, sep) == SplitFrom(s, sep, 1, <<>>)

\* Simple case folding of one character.
Fold(c) ==
    CASE c = "B" -> "b"
      [] c = "E" -> "e"
      [] c = "A" -> "a"
      [] c = "R" -> "r"
      [] c = "S" -> "s"
      [] c = "I" -> "i"
      [] c = "C" -> "c"
      [] c = "T" -> "t"
      [] OTHER -> c

\* strings.EqualFold.
EqualFold(a, b) ==
    /\ Len(a) = Len(b)
    /\ \A i \in 1..Len(a) : Fold(a[i]) = Fold(b[i])

\* The response of sendError: the status and the reason.
ErrorResp(status, reason) ==
    [status |-> status, reason |-> reason, code |-> 0, out |-> <<>>, err |-> <<>>]

NoResp == [status |-> 0, reason |-> "", code |-> 0, out |-> <<>>, err |-> <<>>]

\* An authentication middleware that skips the comparison of the token.
AuthHandlerNoTokenCheck(authorization, token) ==
    IF authorization = <<>>
      THEN ErrorResp(400, "Authorization header is mandatory")
    ELSE IF Len(Split(authorization, Space)) # 2
      THEN ErrorResp(400, "Expected exactly 2 parts in the authorization header")
    ELSE IF ~EqualFold(Split(authorization, Space)[1], StrLowerBearer)
      THEN ErrorResp(400, "Expected authorization type 'bearer'")
    ELSE NoResp

\* An authentication middleware that answers 401 to a missing header.
AuthHandlerMissingIs401(authorization, token) ==
    IF authorization = <<>>
      THEN ErrorResp(401, "Wrong token")
    ELSE IF Len(Split(authorization, Space)) # 2
      THEN ErrorResp(400, "Expected exactly 2 parts in the authorization header")
    ELSE IF ~EqualFold(Split(authorization, Space)[1], StrLowerBearer)
      THEN ErrorResp(400, "Expected authorization type 'bearer'")
    ELSE IF Split(authorization, Space)[2] # token
      THEN ErrorResp(401, "Wrong token")
    ELSE NoResp

\* An authentication middleware that accepts any authorization type.
AuthHandlerAnyType(authorization, token) ==
    IF authorization = <<>>
      THEN ErrorResp(400, "Authorization header is mandatory")
    ELSE IF Len(Split(authorization, Space)) # 2
      THEN ErrorResp(400, "Expected exactly 2 parts in the authorization header")
    ELSE IF Split(authorization, Space)[2] # token
      THEN ErrorResp(401, "Wrong token")
    ELSE NoResp

\* authHandler.ServeHTTP: the error response it sends, or NoResp when it calls
\* the next handler.
AuthHandler(authorization, token) ==
    IF authorization = <<>>
      THEN ErrorResp(400, "Authorization header is mandatory")
    ELSE IF Len(Split(authorization, Space)) # 2
      THEN ErrorResp(400, "Expected exactly 2 parts in the authorization header")
    ELSE IF ~EqualFold(Split(authorization, Space)[1], StrLowerBearer)
      THEN ErrorResp(400, "Expected authorization type 'bearer'")
    ELSE IF Split(authorization, Space)[2] # token
      THEN ErrorResp(401, "Wrong token")
    ELSE NoResp

\* The registered route: router.Handle("/api/v1/tests", handler).Methods(POST).
TestsPath == "/api/v1/tests"
Methods == {"POST", "GET"}
Paths == {TestsPath, "/other"}

\* The request bodies: one that is not the JSON of an api.Test, and one per
\* test binary.
MalformedBody == "malformed"
Binaries == {"pass", "fail", "killed", "noexec", "hang"}

\* What a test binary does when it is run: whether it can be started at all,
\* whether it ever exits, its exit code and what it writes to its standard
\* output and error. The exit code of a process ended by a signal is -1
\* (ExitError.ExitCode).
Program(b) ==
    CASE b = "pass" -> [starts |-> TRUE, exits |-> TRUE, code |-> 0,
                        out |-> <<"o", "k">>, err |-> <<>>]
      [] b = "fail" -> [starts |-> TRUE, exits |-> TRUE, code |-> 1,
                        out |-> <<>>, err |-> <<"n", "o">>]
      [] b = "killed" -> [starts |-> TRUE, exits |-> TRUE, code |-> -1,
                          out |-> <<"o">>, err |-> <<"n">>]
      [] b = "hang" -> [starts |-> TRUE, exits |-> FALSE, code |-> 0,
                        out |-> <<"o">>, err |-> <<>>]
      [] OTHER -> [starts |-> FALSE, exits |-> FALSE, code |-> 0,
                   out |-> <<>>, err |-> <<>>]

StartedAlways(ok, p) == TRUE

\* Lines 165-176: Run returns nil or an *exec.ExitError when the process was
\* started and waited for; any other error means that it was not started.
Started(ok, p) == ok /\ p.starts

TestCodeZero(p) == 0

\* Lines 165-177: testCode is 0 when Run returns nil, and the exit code of
\* the *exec.ExitError otherwise.
TestCode(p) == p.code

Requests ==
    [method : Methods, path : Paths, auth : AuthHeaders,
     body : {MalformedBody} \cup Binaries]

NoReq == [method |-> "", path |-> "", auth |-> <<>>, body |-> ""]

DirIds == 1..MaxDirs
Handlers == 1..NumHandlers

NoDir == [exists |-> FALSE, binary |-> "", hasOut |-> FALSE, out |-> <<>>,
          hasErr |-> FALSE, err |-> <<>>]

\* The router built by Server.Start: the handler chain a request is given to.
Route(method, path) ==
    IF path # TestsPath THEN "notFound"
    ELSE IF method # "POST" THEN "methodNotAllowed"
    ELSE "tests"

\* The handler ends by writing `resp`.
Respond(h, resp) ==
    /\ hResp' = [hResp EXCEPT ![h] = resp]
    /\ hPc' = [hPc EXCEPT ![h] = "done"]

\* A request arrives on connection h and goes through the router and, on the
\* registered route, the access log and authentication middlewares.
SrvReceive(h, req) ==
    /\ hPc[h] = "idle"
    /\ nReq < MaxRequests
    /\ nReq' = nReq + 1
    /\ hReq' = [hReq EXCEPT ![h] = req]
    /\ CASE Route(req.method, req.path) = "notFound" ->
              Respond(h, ErrorResp(404, "Can't find resource for path"))
         [] Route(req.method, req.path) = "methodNotAllowed" ->
              Respond(h, ErrorResp(405, ""))
         [] OTHER ->
              IF AuthHandler(req.auth, srvToken) # NoResp
                THEN Respond(h, AuthHandler(req.auth, srvToken))
                ELSE /\ hPc' = [hPc EXCEPT ![h] = "decode"]
                     /\ UNCHANGED hResp
    /\ UNCHANGED <<notSrv, srvToken, hDir, hCode, hEff, fs>>

\* postTestHandler.ServeHTTP, lines 63-71: decode the request body.
SrvDecode(h) ==
    /\ hPc[h] = "decode"
    /\ hEff' = [hEff EXCEPT ![h] = @ \cup {"parsed"}]
    /\ IF hReq[h].body = MalformedBody
         THEN Respond(h, ErrorResp(400, "Can't unmarshal request body"))
         ELSE hPc' = [hPc EXCEPT ![h] = "uuid"] /\ UNCHANGED hResp
    /\ UNCHANGED <<notSrv, srvToken, hReq, hDir, hCode, fs, nReq>>

\* Lines 73-81: uuid.NewRandom gives the test identifier, or fails.
SrvUUID(h, ok, id) ==
    /\ hPc[h] = "uuid"
    /\ IF ok
         THEN /\ hDir' = [hDir EXCEPT ![h] = id]
              /\ hPc' = [hPc EXCEPT ![h] = "mkdir"]
              /\ UNCHANGED hResp
         ELSE /\ Respond(h, ErrorResp(500, "Can't generate test identifier"))
              /\ UNCHANGED hDir
    /\ UNCHANGED <<notSrv, srvToken, hReq, hCode, hEff, fs, nReq>>

MkdirAll(ok, dir) == ok

\* os.Mkdir fails when the directory exists or cannot be created.
Mkdir(ok, dir) == ok /\ ~dir.exists

\* Lines 83-91: the test directory is created with os.Mkdir.
SrvMkdir(h, ok) ==
    /\ hPc[h] = "mkdir"
    /\ IF Mkdir(ok, fs[hDir[h]])
         THEN /\ fs' = [fs EXCEPT ![hDir[h]] = [NoDir EXCEPT !.exists = TRUE]]
              /\ hEff' = [hEff EXCEPT ![h] = @ \cup {"dir"}]
              /\ hPc' = [hPc EXCEPT ![h] = "write"]
              /\ UNCHANGED hResp
         ELSE /\ Respond(h, ErrorResp(500, "Can't generate test directory"))
              /\ UNCHANGED <<fs, hEff>>
    /\ UNCHANGED <<notSrv, srvToken, hReq, hDir, hCode, nReq>>

\* Lines 93-108: write the binary with permissions 0700.
SrvWrite(h, ok) ==
    /\ hPc[h] = "write"
    /\ IF ok
         THEN /\ fs' = [fs EXCEPT ![hDir[h]].binary = hReq[h].body]
              /\ hEff' = [hEff EXCEPT ![h] = @ \cup {"binary"}]
              /\ hPc' = [hPc EXCEPT ![h] = "openOut"]
              /\ UNCHANGED hResp
         ELSE /\ Respond(h, ErrorResp(500, "Can't create test binary file"))
              /\ UNCHANGED <<fs, hEff>>
    /\ UNCHANGED <<notSrv, srvToken, hReq, hDir, hCode, nReq>>

SrvOpenOutNoCheck(h, ok) ==
    /\ hPc[h] = "openOut"
    /\ fs' = IF ok THEN [fs EXCEPT ![hDir[h]].hasOut = TRUE] ELSE fs
    /\ hPc' = [hPc EXCEPT ![h] = "openErr"]
    /\ UNCHANGED <<notSrv, srvToken, hReq, hResp, hDir, hCode, hEff, nReq>>

\* Lines 110-128: create the standard output file.
SrvOpenOut(h, ok) ==
    /\ hPc[h] = "openOut"
    /\ IF ok
         THEN /\ fs' = [fs EXCEPT ![hDir[h]].hasOut = TRUE]
              /\ hPc' = [hPc EXCEPT ![h] = "openErr"]
              /\ UNCHANGED hResp
         ELSE /\ Respond(h, ErrorResp(500, "Can't create output file"))
              /\ UNCHANGED fs
    /\ UNCHANGED <<notSrv, srvToken, hReq, hDir, hCode, hEff, nReq>>

\* Lines 130-151: create the standard error file.
SrvOpenErr(h, ok) ==
    /\ hPc[h] = "openErr"
    /\ IF ok
         THEN /\ fs' = [fs EXCEPT ![hDir[h]].hasErr = TRUE]
              /\ hPc' = [hPc EXCEPT ![h] = "run"]
              /\ UNCHANGED hResp
         ELSE /\ Respond(h, ErrorResp(500, "Can't open standard error file"))
              /\ UNCHANGED fs
    /\ UNCHANGED <<notSrv, srvToken, hReq, hDir, hCode, hEff, nReq>>

\* Lines 153-167 and 169-177: testCommand.Run() starts the binary of the test
\* directory, and the handler then waits in Run for the subprocess to exit.
\* An error that is not an *exec.ExitError means that the subprocess was not
\* started: it is a 500.
SrvRun(h, ok) ==
    /\ hPc[h] = "run"
    /\ IF Started(ok, Program(fs[hDir[h]].binary))
         THEN /\ hEff' = [hEff EXCEPT ![h] = @ \cup {"spawn"}]
              /\ hPc' = [hPc EXCEPT ![h] = "running"]
              /\ UNCHANGED hResp
         ELSE /\ Respond(h, ErrorResp(500, "Can't execute test binary"))
              /\ UNCHANGED hEff
    /\ UNCHANGED <<notSrv, srvToken, hReq, hDir, hCode, fs, nReq>>

\* What the running subprocess has yet to write to a stream, given what the
\* file holds.
Remaining(written, all) == SubSeq(all, Len(written) + 1, Len(all))

\* Lines 165-166: the running subprocess of connection h writes the next
\* character of its standard output or error to the file of the stream.
SrvProcWrite(h, stream) ==
    /\ hPc[h] = "running"
    /\ LET d == hDir[h]
           p == Program(fs[d].binary)
       IN  IF stream = "out"
             THEN /\ Remaining(fs[d].out, p.out) # <<>>
                  /\ fs' = [fs EXCEPT ![d].out =
                                Append(@, Head(Remaining(@, p.out)))]
             ELSE /\ Remaining(fs[d].err, p.err) # <<>>
                  /\ fs' = [fs EXCEPT ![d].err =
                                Append(@, Head(Remaining(@, p.err)))]
    /\ UNCHANGED <<notSrv, srvToken, hPc, hReq, hResp, hDir, hCode, hEff, nReq>>

\* Lines 167-179: the subprocess exits, having written all its output, and
\* Run returns nil or an *exec.ExitError that gives the exit code. A
\* subprocess that never exits keeps the handler in Run for ever.
SrvWait(h) ==
    /\ hPc[h] = "running"
    /\ LET d == hDir[h]
           p == Program(fs[d].binary)
       IN  /\ p.exits
           /\ fs[d].out = p.out
           /\ fs[d].err = p.err
           /\ hCode' = [hCode EXCEPT ![h] = TestCode(p)]
    /\ hPc' = [hPc EXCEPT ![h] = "readOut"]
    /\ UNCHANGED <<notSrv, srvToken, hReq, hResp, hDir, hEff, fs, nReq>>

\* Lines 181-190: read the standard output file.
SrvReadOut(h, ok) ==
    /\ hPc[h] = "readOut"
    /\ IF ok /\ fs[hDir[h]].hasOut
         THEN /\ hResp' = [hResp EXCEPT ![h].out = fs[hDir[h]].out]
              /\ hPc' = [hPc EXCEPT ![h] = "readErr"]
         ELSE Respond(h, ErrorResp(500, "Can't read output file"))
    /\ UNCHANGED <<notSrv, srvToken, hReq, hDir, hCode, hEff, fs, nReq>>

\* Lines 192-218: read the standard error file and send the 200 response.
SrvReadErr(h, ok) ==
    /\ hPc[h] = "readErr"
    /\ IF ok /\ fs[hDir[h]].hasErr
         THEN Respond(h, [status |-> 200, reason |-> "", code |-> hCode[h],
                          out |-> hResp[h].out, err |-> fs[hDir[h]].err])
         ELSE Respond(h, ErrorResp(500, "Can't read errors file"))
    /\ UNCHANGED <<notSrv, srvToken, hReq, hDir, hCode, hEff, fs, nReq>>

SrvResetCleanup(h) ==
    /\ hPc[h] = "done"
    /\ hPc' = [hPc EXCEPT ![h] = "idle"]
    /\ hReq' = [hReq EXCEPT ![h] = NoReq]
    /\ hResp' = [hResp EXCEPT ![h] = NoResp]
    /\ hDir' = [hDir EXCEPT ![h] = 0]
    /\ hCode' = [hCode EXCEPT ![h] = 0]
    /\ hEff' = [hEff EXCEPT ![h] = {}]
    /\ fs' = IF "dir" \in hEff[h] THEN [fs EXCEPT ![hDir[h]] = NoDir] ELSE fs
    /\ UNCHANGED <<notSrv, srvToken, nReq>>

\* The response has been sent; the connection serves the next request.
SrvReset(h) ==
    /\ hPc[h] = "done"
    /\ hPc' = [hPc EXCEPT ![h] = "idle"]
    /\ hReq' = [hReq EXCEPT ![h] = NoReq]
    /\ hResp' = [hResp EXCEPT ![h] = NoResp]
    /\ hDir' = [hDir EXCEPT ![h] = 0]
    /\ hCode' = [hCode EXCEPT ![h] = 0]
    /\ hEff' = [hEff EXCEPT ![h] = {}]
    /\ UNCHANGED <<notSrv, srvToken, fs, nReq>>

\* The server right after Server.Start: no request yet, an empty work directory.
SrvIdle ==
    /\ hPc = [h \in Handlers |-> "idle"]
    /\ hReq = [h \in Handlers |-> NoReq]
    /\ hResp = [h \in Handlers |-> NoResp]
    /\ hDir = [h \in Handlers |-> 0]
    /\ hCode = [h \in Handlers |-> 0]
    /\ hEff = [h \in Handlers |-> {}]
    /\ fs = [d \in DirIds |-> NoDir]
    /\ nReq = 0

\* The steps of the handler of connection h.
SrvHandle(h) ==
    \/ SrvDecode(h)
    \/ \E ok \in BOOLEAN, id \in DirIds : SrvUUID(h, ok, id)
    \/ \E ok \in BOOLEAN : SrvMkdir(h, ok)
    \/ \E ok \in BOOLEAN : SrvWrite(h, ok)
    \/ \E ok \in BOOLEAN : SrvOpenOut(h, ok)
    \/ \E ok \in BOOLEAN : SrvOpenErr(h, ok)
    \/ \E ok \in BOOLEAN : SrvRun(h, ok)
    \/ \E stream \in {"out", "err"} : SrvProcWrite(h, stream)
    \/ SrvWait(h)
    \/ \E ok \in BOOLEAN : SrvReadOut(h, ok)
    \/ \E ok \in BOOLEAN : SrvReadErr(h, ok)
    \/ SrvReset(h)

\* --- the environment of the test subprocess
\* Largest number of variables of the server process.
MaxEnviron == 2

EnvNames == {<<"A">>, <<"B">>}
EnvValues == {<<"1">>, <<"2">>, <<"=", "1">>}

\* fmt.Sprintf("%s=%s", name, value).
EnvEntry(name, value) == name \o <<"=">> \o value

\* The index of the first "=" of an entry, 0 if it has none.
EqIndex(kv) ==
    IF \E i \in 1..Len(kv) : kv[i] = "="
      THEN CHOOSE i \in 1..Len(kv) :
               kv[i] = "=" /\ \A j \in 1..(i - 1) : kv[j] # "="
      ELSE 0

EnvKey(kv) == SubSeq(kv, 1, EqIndex(kv) - 1)

EnvValue(kv) == SubSeq(kv, EqIndex(kv) + 1, Len(kv))

\* os/exec: of the entries of Cmd.Env with the same key only the last one is
\* passed to the subprocess. Each entry kept comes with its position in env.
dedupEnv(env) ==
    SelectSeq([i \in 1..Len(env) |-> <<i, env[i]>>],
              LAMBDA p : ~\E j \in (p[1] + 1)..Len(env) :
                             EnvKey(env[j]) = EnvKey(p[2]))

\* The value of the variable `name` in an environment whose keys are
\* distinct, <<>> if it is not set.
Getenv(env, name) ==
    IF \E i \in 1..Len(env) : EnvKey(env[i][2]) = name
      THEN EnvValue(env[CHOOSE i \in 1..Len(env) : EnvKey(env[i][2]) = name][2])
      ELSE <<>>

addEnvFirst(env, name, value) == <<EnvEntry(name, value)>> \o env

\* postTestHandler.addEnv: `*env = append(*env, "name=value")`.
addEnv(env, name, value) == Append(env, EnvEntry(name, value))

\* The environments of the server process: distinct names, any order.
Environs ==
    {env \in UNION {[1..n -> {EnvEntry(n2, v) : n2 \in EnvNames, v \in EnvValues}] :
                        n \in 0..MaxEnviron} :
        \A i, j \in 1..Len(env) : i # j => EnvKey(env[i]) # EnvKey(env[j])}

\* The values of the field env of a request: a map from names to values.
ReqEnvs == UNION {[S -> EnvValues] : S \in SUBSET EnvNames}

\* No test is being run.
EnvFresh ==
    /\ ePc = "off"
    /\ eEnviron = <<>>
    /\ eReqEnv = <<>>
    /\ eTodo = {}
    /\ eTestEnv = <<>>
    /\ eChild = <<>>

\* ServeHTTP, line 154: `testEnv := os.Environ()`.
EnvStart(environ, reqEnv) ==
    /\ ePc = "off"
    /\ ePc' = "env"
    /\ eEnviron' = environ
    /\ eReqEnv' = reqEnv
    /\ eTodo' = DOMAIN reqEnv
    /\ eTestEnv' = environ
    /\ UNCHANGED <<notEnv, eChild>>

\* Lines 155-157: one iteration of the range over the map, in any order.
EnvAdd(name) ==
    /\ ePc = "env"
    /\ name \in eTodo
    /\ eTestEnv' = addEnv(eTestEnv, name, eReqEnv[name])
    /\ eTodo' = eTodo \ {name}
    /\ UNCHANGED <<notEnv, ePc, eEnviron, eReqEnv, eChild>>

\* Lines 159-165: the command is started with Env = testEnv.
EnvRun ==
    /\ ePc = "env"
    /\ eTodo = {}
    /\ ePc' = "ran"
    /\ eChild' = dedupEnv(eTestEnv)
    /\ UNCHANGED <<notEnv, eEnviron, eReqEnv, eTodo, eTestEnv>>

EnvNext ==
    \/ \E environ \in Environs, reqEnv \in ReqEnvs : EnvStart(environ, reqEnv)
    \/ \E name \in EnvNames : EnvAdd(name)
    \/ EnvRun

\* The server serving one connection, any request.
SrvNext ==
    \/ \E req \in Requests : SrvReceive(1, req)
    \/ SrvHandle(1)

\* ================================================================= runner

\* RunnerBuilder.Build: the calls that can fail, in the order of the code.
\* "config" stands for the checks, the configuration and the clients.
EnsureProjectSteps == <<"project", "acct1", "bind1">>
EnsureCleanerSteps == <<"cacct", "cbind", "cpod">>
EnsureServerSteps == <<"token", "acct2", "bind2", "pod", "service", "route",
                       "waitPod", "waitRoute", "waitServer">>

BuildStepsAlwaysCleaner(k) ==
    <<"config">> \o EnsureProjectSteps \o EnsureCleanerSteps \o EnsureServerSteps

\* Build, lines 344-358: ensureCleaner is called only `if !b.keep`.
BuildSteps(k) ==
    <<"config">> \o EnsureProjectSteps
                 \o (IF ~k THEN EnsureCleanerSteps ELSE <<>>)
                 \o EnsureServerSteps

\* The steps that issue a create call, and the resource each one creates.
CreateSteps == {"project", "acct1", "bind1", "cacct", "cbind", "cpod",
                "acct2", "bind2", "pod", "service", "route"}

Resource(step) ==
    CASE step = "project" -> "project"
      [] step \in {"acct1", "acct2"} -> "sa/server"
      [] step \in {"bind1", "bind2"} -> "rb/server"
      [] step = "cacct" -> "sa/cleaner"
      [] step = "cbind" -> "rb/cleaner"
      [] step = "cpod" -> "pod/cleaner"
      [] step = "pod" -> "pod/server"
      [] step = "service" -> "svc/server"
      [] step = "route" -> "route/server"

CleanerResources == {"sa/cleaner", "rb/cleaner", "pod/cleaner"}

\* The step that follows `step` in Build, "built" after the last one.
StepAfter(step, k) ==
    LET steps == BuildSteps(k)
        i == CHOOSE j \in 1..Len(steps) : steps[j] = step
    IN  IF i < Len(steps) THEN steps[i + 1] ELSE "built"

CreateErrStrict(res) == IF res = "ok" THEN "ok" ELSE "error"

\* `if errors.IsAlreadyExists(err) { err = nil }` after every create call.
CreateErr(res) == IF res = "exists" THEN "ok" ELSE res

AfterStepIgnoreError(step, res, k) == StepAfter(step, k)

\* `if err != nil { return err }` after every step: Build returns the error
\* and execute returns 1 (runner/cmd.go, lines 118-121).
AfterStep(step, res, k) ==
    IF res = "error" THEN "exit" ELSE StepAfter(step, k)

\* --- watch events and the objects they carry
Cond(t, s) == [type |-> t, status |-> s]
Ingress(conds) == [conds |-> conds]
Obj(kind, name, conds, ingress) ==
    [kind |-> kind, name |-> name, conds |-> conds, ingress |-> ingress]
NoObj == Obj("", "", <<>>, <<>>)

PodServerReady == Obj("Pod", "server", <<Cond("Ready", "True")>>, <<>>)
PodServerPending ==
    Obj("Pod", "server", <<Cond("PodScheduled", "True"), Cond("Ready", "False")>>, <<>>)
PodCleanerReady == Obj("Pod", "cleaner", <<Cond("Ready", "True")>>, <<>>)
StatusObj == Obj("Status", "", <<>>, <<>>)

RouteAdmitted ==
    Obj("Route", "server", <<>>, <<Ingress(<<Cond("Admitted", "True")>>)>>)
RoutePending ==
    Obj("Route", "server", <<>>, <<Ingress(<<Cond("Admitted", "False")>>)>>)
RouteHalfAdmitted ==
    Obj("Route", "server", <<>>,
        <<Ingress(<<Cond("Admitted", "True")>>), Ingress(<<>>)>>)
RouteNoIngress == Obj("Route", "server", <<>>, <<>>)

Event(t, o) == [type |-> t, obj |-> o]

PodEvents ==
    {Event("ADDED", o) : o \in {PodServerReady, PodServerPending, PodCleanerReady,
                                StatusObj}}
    \cup {Event("MODIFIED", o) : o \in {PodServerReady, PodServerPending}}
    \cup {Event("DELETED", PodServerPending), Event("ERROR", StatusObj),
          Event("BOOKMARK", PodServerPending)}

RouteEvents ==
    {Event("ADDED", o) : o \in {RouteAdmitted, RoutePending, RouteHalfAdmitted,
                                RouteNoIngress}}
    \cup {Event("MODIFIED", RouteAdmitted), Event("DELETED", RouteAdmitted),
          Event("ERROR", StatusObj)}

\* The event sequences a watch can deliver before its channel is closed.
Streams(events) == UNION {[1..n -> events] : n \in 0..MaxEvents}

\* isPodReady: some condition has type Ready and status True.
isPodReady(pod) ==
    \E i \in 1..Len(pod.conds) :
        pod.conds[i].type = "Ready" /\ pod.conds[i].status = "True"

\* isIngressAdmitted: some condition has type Admitted and status True.
isIngressAdmitted(ingress) ==
    \E i \in 1..Len(ingress.conds) :
        ingress.conds[i].type = "Admitted" /\ ingress.conds[i].status = "True"

isRouteAdmittedSome(route) ==
    \E i \in 1..Len(route.ingress) : isIngressAdmitted(route.ingress[i])

\* isRouteAdmitted: result starts true and is cleared by the first ingress
\* that is not admitted.
isRouteAdmitted(route) ==
    \A i \in 1..Len(route.ingress) : isIngressAdmitted(route.ingress[i])

isReady(kind, obj) ==
    IF kind = "Pod" THEN isPodReady(obj) ELSE isRouteAdmitted(obj)

\* The `for event := range wtch.ResultChan()` loop of WaitForPod and of
\* WaitForRoute, from event i on, `cur` being the value of the result so far.
\* The `break` after a ready snapshot leaves the switch only, so the loop goes
\* on with the next event; the function returns inside the loop on a Deleted
\* or Error event only, and after the loop with a nil error.
RECURSIVE WaitLoop(_, _, _, _)
WaitLoop(kind, events, i, cur) ==
    IF i > Len(events) THEN [obj |-> cur, err |-> "nil"]
    ELSE LET e == events[i] IN
         CASE e.type \in {"ADDED", "MODIFIED"} ->
                  IF e.obj.kind = kind /\ isReady(kind, e.obj)
                    THEN WaitLoop(kind, events, i + 1, e.obj)
                    ELSE WaitLoop(kind, events, i + 1, cur)
           [] e.type = "DELETED" -> [obj |-> cur, err |-> "deleted"]
           [] e.type = "ERROR" -> [obj |-> cur, err |-> "error"]
           [] OTHER -> WaitLoop(kind, events, i + 1, cur)

WaitForPod(events) == WaitLoop("Pod", events, 1, NoObj)

WaitForRoute(events) == WaitLoop("Route", events, 1, NoObj)

\* --- one call of WaitForPod / WaitForRoute, event by event
\* At most this many events are received after wtch.Stop(): the one the
\* watcher was already sending on the unbuffered result channel.
LateEvents == 1

\* No call of a wait function has been made.
WaitFresh ==
    /\ wPc = "off"
    /\ wKind = ""
    /\ wSeen = <<>>
    /\ wObj = NoObj
    /\ wErr = "nil"
    /\ wStops = 0
    /\ wLate = 0

\* The events a watch of pods / of routes of the project delivers.
WatchEvents(kind) == IF kind = "Pod" THEN PodEvents ELSE RouteEvents

WaitCaseIgnoreDeleted(kind, e, cur) ==
    CASE e.type \in {"ADDED", "MODIFIED"} ->
             IF e.obj.kind = kind /\ isReady(kind, e.obj)
               THEN [obj |-> e.obj, err |-> "nil", stop |-> TRUE, ret |-> FALSE]
               ELSE [obj |-> cur, err |-> "nil", stop |-> FALSE, ret |-> FALSE]
      [] e.type = "ERROR" ->
             [obj |-> cur, err |-> "error", stop |-> TRUE, ret |-> TRUE]
      [] OTHER -> [obj |-> cur, err |-> "nil", stop |-> FALSE, ret |-> FALSE]

\* The body of the loop for the event e, `cur` being the result so far: the
\* new result and error, whether wtch.Stop() is called and whether the
\* function returns. An object of another type and an event of another type
\* are logged and skipped; the `break` of the ready case leaves the switch.
WaitCase(kind, e, cur) ==
    CASE e.type \in {"ADDED", "MODIFIED"} ->
             IF e.obj.kind = kind /\ isReady(kind, e.obj)
               THEN [obj |-> e.obj, err |-> "nil", stop |-> TRUE, ret |-> FALSE]
               ELSE [obj |-> cur, err |-> "nil", stop |-> FALSE, ret |-> FALSE]
      [] e.type = "DELETED" ->
             [obj |-> cur, err |-> "deleted", stop |-> TRUE, ret |-> TRUE]
      [] e.type = "ERROR" ->
             [obj |-> cur, err |-> "error", stop |-> TRUE, ret |-> TRUE]
      [] OTHER -> [obj |-> cur, err |-> "nil", stop |-> FALSE, ret |-> FALSE]

\* The Watch call: on an error the function returns it.
WaitStart(kind, ok) ==
    /\ wPc = "off"
    /\ wKind' = kind
    /\ wPc' = IF ok THEN "range" ELSE "returned"
    /\ wErr' = IF ok THEN "nil" ELSE "watch"
    /\ UNCHANGED <<notWait, wSeen, wObj, wStops, wLate>>

\* One iteration of `for event := range channel`.
WaitRecv(e) ==
    /\ wPc = "range"
    /\ e \in WatchEvents(wKind)
    /\ Len(wSeen) < MaxEvents
    /\ wStops > 0 => wLate < LateEvents
    /\ wSeen' = Append(wSeen, e)
    /\ wLate' = IF wStops > 0 THEN wLate + 1 ELSE wLate
    /\ LET c == WaitCase(wKind, e, wObj) IN
         /\ wObj' = c.obj
         /\ wErr' = c.err
         /\ wStops' = IF c.stop THEN wStops + 1 ELSE wStops
         /\ wPc' = IF c.ret THEN "returned" ELSE "range"
    /\ UNCHANGED <<notWait, wKind>>

\* The channel is closed, by the server after the timeout of the watch or
\* after wtch.Stop(): the loop ends and the function returns its results.
WaitClosed ==
    /\ wPc = "range"
    /\ wPc' = "returned"
    /\ UNCHANGED <<notWait, wKind, wSeen, wObj, wErr, wStops, wLate>>

WaitNext ==
    \/ \E kind \in {"Pod", "Route"}, ok \in BOOLEAN : WaitStart(kind, ok)
    \/ \E e \in PodEvents \cup RouteEvents : WaitRecv(e)
    \/ WaitClosed

\* --- the runner command
\* The frame of the runner's steps: the clock, the cleaner and the handlers.
notRun == <<now, clnVars, hPc, hReq, hResp, hDir, hCode, hEff, fs, nReq,
            waitVars, envVars, dbVars>>

buildVars == <<cluster, createCalls, lastCreate, rToken, rAddr, probes, slept, lastProbe,
               waitTimedOut>>
loopVars == <<binaries, bIdx, outcomes, sent, inFlight, failed, runErr>>

\* No create call: the last step of Build was not a create call.
NoCreate == [step |-> "", res |-> ""]

\* The state of a runner command before its first step.
RunFresh ==
    /\ rExit = -1
    /\ cluster = {}
    /\ createCalls = {}
    /\ lastCreate = NoCreate
    /\ rToken = <<>>
    /\ rAddr = ""
    /\ probes = 0
    /\ slept = 0
    /\ lastProbe = ""
    /\ waitTimedOut = {}
    /\ buildErr = FALSE
    /\ binaries = <<>>
    /\ bIdx = 0
    /\ outcomes = <<>>
    /\ sent = <<>>
    /\ inFlight = FALSE
    /\ failed = 0
    /\ runErr = FALSE
    /\ rDestroyCalls = 0
    /\ rDeletes = 0

\* execute, lines 103-107: no directory given.
RunnerArgs(ok) ==
    /\ rPc = "args"
    /\ rPc' = IF ok THEN "config" ELSE "exit"
    /\ rExit' = IF ok THEN rExit ELSE 1
    /\ UNCHANGED <<notRun, srvToken, keep, buildVars, buildErr, loopVars,
                   rDestroyCalls, rDeletes>>

\* The end of a step of Build with result res.
StepDone(step, res) ==
    /\ rPc' = AfterStep(step, res, keep)
    /\ rExit' = IF rPc' = "exit" THEN 1 ELSE rExit
    /\ buildErr' = (buildErr \/ res = "error")

\* Build, lines 268-342: parameters, configuration file, proxy and clients.
RunnerConfig(res) ==
    /\ rPc = "config"
    /\ StepDone("config", res)
    /\ UNCHANGED <<notRun, srvToken, keep, buildVars, loopVars, rDestroyCalls,
                   rDeletes>>

\* The answers of the API server to a create call. Nothing can be created in
\* a project that has been deleted.
CreateResults(resource) ==
    IF resource \in cluster THEN {"exists", "error"}
    ELSE IF resource # "project" /\ "project" \notin cluster THEN {"error"}
    ELSE {"ok", "exists", "error"}

\* A create call of ensureProject, ensureCleaner or ensureServer. The server
\* pod runs with the token of the call that created it; a pod that existed
\* before was started with another token.
RunnerCreate(step, res) ==
    /\ rPc = step
    /\ step \in CreateSteps
    /\ res \in CreateResults(Resource(step))
    /\ createCalls' = createCalls \cup {Resource(step)}
    /\ lastCreate' = [step |-> step, res |-> res]
    /\ cluster' = IF res = "error" THEN cluster ELSE cluster \cup {Resource(step)}
    /\ srvToken' = IF step = "pod" /\ res = "ok" THEN rToken
                   ELSE IF step = "pod" /\ res = "exists" THEN TokenB
                   ELSE srvToken
    /\ StepDone(step, CreateErr(res))
    /\ UNCHANGED <<notRun, keep, rToken, rAddr, probes, slept, lastProbe, waitTimedOut, loopVars,
                   rDestroyCalls, rDeletes>>

\* ensureServer, lines 690-694: the random token.
RunnerToken(res) ==
    /\ rPc = "token"
    /\ lastCreate' = NoCreate
    /\ rToken' = IF res = "ok" THEN TokenA ELSE rToken
    /\ StepDone("token", res)
    /\ UNCHANGED <<notRun, srvToken, keep, cluster, createCalls, rAddr, probes, slept, lastProbe,
                   waitTimedOut, loopVars, rDestroyCalls, rDeletes>>

\* The watch ended without a ready snapshot and without an error.
EndedNotReady(r) == r.err = "nil" /\ r.obj = NoObj

WaitRes(r) == IF r.err = "nil" THEN "ok" ELSE "error"

\* ensureServer, lines 853-856. The pod returned is never used.
RunnerWaitPod(started, events) ==
    /\ rPc = "waitPod"
    /\ lastCreate' = NoCreate
    /\ LET r == WaitForPod(events) IN
         /\ StepDone("waitPod", IF started THEN WaitRes(r) ELSE "error")
         /\ waitTimedOut' = IF started /\ EndedNotReady(r)
                              THEN waitTimedOut \cup {"pod"} ELSE waitTimedOut
    /\ UNCHANGED <<notRun, srvToken, keep, cluster, createCalls, rToken, rAddr,
                   probes, slept, lastProbe, loopVars, rDestroyCalls, rDeletes>>

\* ensureServer, lines 857-863: `route.Spec.Host` is evaluated on the route
\* that WaitForRoute returned; with a nil route the process panics (exit 2).
RunnerWaitRoute(started, events) ==
    /\ rPc = "waitRoute"
    /\ lastCreate' = NoCreate
    /\ LET r == WaitForRoute(events) IN
         IF started /\ EndedNotReady(r)
           THEN /\ rPc' = "exit"
                /\ rExit' = 2
                /\ waitTimedOut' = waitTimedOut \cup {"route"}
                /\ UNCHANGED <<buildErr, rAddr>>
           ELSE /\ StepDone("waitRoute", IF started THEN WaitRes(r) ELSE "error")
                /\ rAddr' = IF started /\ r.err = "nil" THEN "https://host" ELSE rAddr
                /\ UNCHANGED waitTimedOut
    /\ UNCHANGED <<notRun, srvToken, keep, cluster, createCalls, rToken, probes, slept, lastProbe,
                   loopVars, rDestroyCalls, rDeletes>>

\* WaitForServer, lines 195-202: one call of isServerResponding. It returns
\* an error when the request can't be created, false on a transport error or
\* a 503 status, true on any other status. The client has no timeout: a
\* call of client.Do that gets no answer and no error never returns. After a
\* false the loop goes to its sleep. The counter and the seconds slept are
\* local to the function: they are gone when the function returns.
RunnerProbe(res) ==
    /\ rPc = "waitServer"
    /\ lastCreate' = NoCreate
    /\ probes < ProbeLimit
    /\ res \in {"request", "transport", "503", "other", "hang"}
    /\ lastProbe' = res
    /\ CASE res \in {"other", "request"} ->
              /\ StepDone("waitServer", IF res = "other" THEN "ok" ELSE "error")
              /\ probes' = 0
              /\ slept' = 0
         [] res = "hang" ->
              /\ rPc' = "hung"
              /\ UNCHANGED <<rExit, buildErr, probes, slept>>
         [] OTHER ->
              /\ rPc' = "sleep"
              /\ UNCHANGED <<rExit, buildErr, probes, slept>>
    /\ UNCHANGED <<notRun, srvToken, keep, cluster, createCalls, rToken, rAddr,
                   waitTimedOut, loopVars, rDestroyCalls, rDeletes>>

\* WaitForServer, lines 203-205: time.Sleep(1 * time.Second) returns and the
\* counter is incremented; when it reaches ProbeLimit the loop ends and the
\* function returns its error.
RunnerSleep ==
    /\ rPc = "sleep"
    /\ IF probes + 1 < ProbeLimit
         THEN /\ probes' = probes + 1
              /\ slept' = slept + 1
              /\ rPc' = "waitServer"
              /\ UNCHANGED <<rExit, buildErr>>
         ELSE /\ StepDone("waitServer", "error")
              /\ probes' = 0
              /\ slept' = 0
    /\ UNCHANGED <<notRun, srvToken, keep, cluster, createCalls, lastCreate,
                   rToken, rAddr, lastProbe, waitTimedOut, loopVars,
                   rDestroyCalls, rDeletes>>

\* --- Runner.Run
\* The names of the *.test files that can be in the working directory, as
\* sequences of character codes.
BinaryNames == {<<1>>, <<1, 2>>, <<2>>}

\* The order of Go strings: byte-wise, a proper prefix first.
RECURSIVE LexLess(_, _)
LexLess(a, b) ==
    IF a = <<>> THEN b # <<>>
    ELSE IF b = <<>> THEN FALSE
    ELSE IF Head(a) # Head(b) THEN Head(a) < Head(b)
    ELSE LexLess(Tail(a), Tail(b))

RECURSIVE SortStringsDescending(_)
SortStringsDescending(S) ==
    IF S = {} THEN <<>>
    ELSE LET m == CHOOSE x \in S : \A y \in S \ {x} : LexLess(y, x)
         IN  <<m>> \o SortStringsDescending(S \ {m})

\* sort.Strings applied to the names in S.
RECURSIVE SortStrings(_)
SortStrings(S) ==
    IF S = {} THEN <<>>
    ELSE LET m == CHOOSE x \in S : \A y \in S \ {x} : LexLess(x, y)
         IN  <<m>> \o SortStrings(S \ {m})

\* Run, lines 395-440, for the flags --recursive and --compile. With
\* recursive, scanDirectories walks the directories: its callback never
\* returns an error, and it evaluates info.Mode() on the nil info that Walk
\* passes for a path that cannot be examined, so the process panics. With
\* compile, compileBinaries can fail, and then Run returns the error. Glob
\* of the pattern "*.test" does not fail; the binaries found are sorted.
RunPrepare(recursive, compile, res, found) ==
    /\ rPc = "built"
    /\ Cardinality(found) <= MaxBinaries
    /\ res \in {"ok", "error", "panic"}
    /\ res = "panic" => recursive
    /\ res = "error" => compile
    /\ CASE res = "ok" ->
              /\ binaries' = SortStrings(found)
              /\ bIdx' = 1
              /\ rPc' = "loop"
              /\ UNCHANGED runErr
         [] res = "error" ->
              /\ runErr' = TRUE
              /\ rPc' = "destroy"
              /\ UNCHANGED <<binaries, bIdx>>
         [] OTHER ->
              /\ rPc' = "panic"
              /\ UNCHANGED <<binaries, bIdx, runErr>>
    /\ UNCHANGED <<notRun, srvToken, keep, rExit, buildVars, buildErr, outcomes,
                   sent, inFlight, failed, rDestroyCalls, rDeletes>>

RunReadAbort(ok) ==
    /\ rPc = "loop"
    /\ bIdx <= Len(binaries)
    /\ runErr' = ~ok
    /\ IF ok
         THEN /\ sent' = Append(sent, binaries[bIdx])
              /\ inFlight' = TRUE
              /\ rPc' = "send"
              /\ UNCHANGED <<bIdx, outcomes>>
         ELSE /\ outcomes' = Append(outcomes, "skipped")
              /\ bIdx' = bIdx + 1
              /\ rPc' = "destroy"
              /\ UNCHANGED <<sent, inFlight>>
    /\ UNCHANGED <<notRun, srvToken, keep, rExit, buildVars, buildErr, binaries,
                   failed, rDestroyCalls, rDeletes>>

\* Run, lines 443-456: the file of the binary is read; a failure is logged
\* and the loop continues with the next binary, err keeping the failure.
\* Otherwise Server.Send is called.
RunRead(ok) ==
    /\ rPc = "loop"
    /\ bIdx <= Len(binaries)
    /\ runErr' = ~ok
    /\ IF ok
         THEN /\ sent' = Append(sent, binaries[bIdx])
              /\ inFlight' = TRUE
              /\ rPc' = "send"
              /\ UNCHANGED <<bIdx, outcomes>>
         ELSE /\ outcomes' = Append(outcomes, "skipped")
              /\ bIdx' = bIdx + 1
              /\ UNCHANGED <<sent, inFlight, rPc>>
    /\ UNCHANGED <<notRun, srvToken, keep, rExit, buildVars, buildErr, binaries,
                   failed, rDestroyCalls, rDeletes>>

\* What Server.Send can return: a transport error, or what the server pod
\* answers to `Authorization: Bearer <token>`: an error status of the
\* authentication handler or of the tests handler, or a result.
SendResults ==
    {"transport"} \cup
    IF AuthHandler(StrBearer \o <<Space>> \o rToken, srvToken) # NoResp
      THEN {"status"}
      ELSE {"status", "pass", "fail"}

RunRecvCountsErrors(res) ==
    /\ rPc = "send"
    /\ res \in SendResults
    /\ inFlight' = FALSE
    /\ outcomes' = Append(outcomes, res)
    /\ runErr' = (res \in {"transport", "status"})
    /\ failed' = IF res # "pass" THEN failed + 1 ELSE failed
    /\ bIdx' = bIdx + 1
    /\ rPc' = "loop"
    /\ UNCHANGED <<notRun, srvToken, keep, rExit, buildVars, buildErr, binaries,
                   sent, rDestroyCalls, rDeletes>>

\* Run, lines 457-477: Send returns. An error is logged and the loop
\* continues with the next binary; a result with a code other than zero
\* increments the counter.
RunRecv(res) ==
    /\ rPc = "send"
    /\ res \in SendResults
    /\ inFlight' = FALSE
    /\ outcomes' = Append(outcomes, res)
    /\ runErr' = (res \in {"transport", "status"})
    /\ failed' = IF res = "fail" THEN failed + 1 ELSE failed
    /\ bIdx' = bIdx + 1
    /\ rPc' = "loop"
    /\ UNCHANGED <<notRun, srvToken, keep, rExit, buildVars, buildErr, binaries,
                   sent, rDestroyCalls, rDeletes>>

\* Run, line 480: the loop is over and Run returns failed and err.
RunReturn ==
    /\ rPc = "loop"
    /\ bIdx > Len(binaries)
    /\ rPc' = "destroy"
    /\ UNCHANGED <<notRun, srvToken, keep, rExit, buildVars, buildErr, loopVars,
                   rDestroyCalls, rDeletes>>

\* execute, lines 133-144: the exit code for the results of Run.
ExitCode(err, count) == IF err THEN 1 ELSE IF count > 0 THEN 1 ELSE 0

\* Runner.Destroy, line 377: the project is deleted `if r.keep`.
DestroyDeletes(k) == k

\* The deferred destroy() of execute, then the process exits: with the code
\* that execute returned, or with status 2 when destroy() ran because of a
\* panic. A not found answer is turned into nil, another error is only logged
\* by execute.
RunnerDestroy(res) ==
    /\ rPc \in {"destroy", "panic"}
    /\ rDestroyCalls' = rDestroyCalls + 1
    /\ IF DestroyDeletes(keep)
         THEN /\ res \in {"ok", "notfound", "error"}
              /\ rDeletes' = rDeletes + 1
              /\ cluster' = IF res = "ok" THEN {} ELSE cluster
         ELSE /\ res = "ok"
              /\ UNCHANGED <<rDeletes, cluster>>
    /\ rPc' = "exit"
    /\ rExit' = IF rPc = "panic" THEN 2 ELSE ExitCode(runErr, failed)
    /\ UNCHANGED <<notRun, srvToken, keep, createCalls, lastCreate, rToken, rAddr,
                   probes, slept, lastProbe, waitTimedOut, buildErr, loopVars>>

\* The runner process is killed: nothing deferred runs, and the locals of
\* the function it was in are gone with it.
RunnerCrash ==
    /\ rPc \notin {"off", "exit", "crashed"}
    /\ rPc' = "crashed"
    /\ rExit' = 137
    /\ probes' = 0
    /\ slept' = 0
    /\ UNCHANGED <<notRun, srvToken, keep, cluster, createCalls, lastCreate,
                   rToken, rAddr, lastProbe, waitTimedOut, buildErr, loopVars,
                   rDestroyCalls, rDeletes>>

\* The cleaner pod created by ensureCleaner starts the cleaner command with
\* `--wait=1m` (part_001, lines 664-669).
CleanerPodStart ==
    /\ "pod/cleaner" \in cluster
    /\ clnPc = "off"
    /\ clnPc' = "check"
    /\ clnWait' = CleanerPodWait
    /\ UNCHANGED <<now, srvVars, runVars, waitVars, envVars, dbVars, clnExit, sigPending,
                   stopCh, gPc, timer,
                   timerStart, timerC, clnDeletes, stopCalls, stopReturned>>

\* The cleaner process is killed (SIGKILL, eviction of the pod): the
\* goroutine and the timer go with it, and nothing deferred runs.
CleanerPodKill ==
    /\ "pod/cleaner" \in createCalls
    /\ clnPc \in {"check", "build", "start", "wait", "stop", "deferDestroy",
                  "deferStop"}
    /\ clnPc' = "killed"
    /\ clnExit' = 137
    /\ gPc' = IF gPc \in {"spawned", "select"} THEN "killed" ELSE gPc
    /\ timer' = TimerStop(timer)
    /\ UNCHANGED <<now, srvVars, runVars, waitVars, envVars, dbVars, clnWait,
                   sigPending, stopCh, timerStart, timerC, clnDeletes,
                   stopCalls, stopReturned>>

RunNext ==
    \/ \E ok \in BOOLEAN : RunnerArgs(ok)
    \/ \E res \in {"ok", "error"} : RunnerConfig(res)
    \/ \E step \in CreateSteps, res \in {"ok", "exists", "error"} :
           RunnerCreate(step, res)
    \/ \E res \in {"ok", "error"} : RunnerToken(res)
    \/ \E started \in BOOLEAN, events \in Streams(PodEvents) :
           RunnerWaitPod(started, events)
    \/ \E started \in BOOLEAN, events \in Streams(RouteEvents) :
           RunnerWaitRoute(started, events)
    \/ \E res \in {"request", "transport", "503", "other", "hang"} :
           RunnerProbe(res)
    \/ RunnerSleep
    \/ \E recursive \in BOOLEAN, compile \in BOOLEAN,
          res \in {"ok", "error", "panic"}, found \in SUBSET BinaryNames :
           RunPrepare(recursive, compile, res, found)
    \/ \E ok \in BOOLEAN : RunRead(ok)
    \/ \E res \in {"transport", "status", "pass", "fail"} : RunRecv(res)
    \/ RunReturn
    \/ \E res \in {"ok", "notfound", "error"} : RunnerDestroy(res)

\* =============================================================== database

\* Largest number of calls of Sandbox.Database followed.
MaxCalls == 2

\* The constant dbAdminUser, the user of a generated set of credentials.
dbAdminUserName == "postgres"
\* What line 308 stores in dbAddress, for the project of the sandbox.
dbServiceAddress == "database.project.svc:5432"

\* The strings uuid.NewRandom can return.
Ids == {"id1", "id2"}
\* corev1.BasicAuthUsernameKey and corev1.BasicAuthPasswordKey.
SecretKeys == {"username", "password"}
\* The values a key of an existing secret can hold; "" is the empty value.
DataValues == {"", "postgres", "admin", "id1"}
\* Secret.Data: a map with any of the two keys.
SecretData == UNION {[D -> DataValues] : D \in SUBSET SecretKeys}
\* The secret database-admin: absent, or present with some data.
NoSecret == [exists |-> FALSE, data |-> [k \in {} |-> ""]]
Secrets == {NoSecret} \cup {[exists |-> TRUE, data |-> d] : d \in SecretData}

\* The five steps of ensureDBServer that follow ensureDBCredentials.
AllSteps == {"pod", "service", "wait", "ping", "sequence"}

\* `data, ok = secret.Data[key]` followed by `!ok` and `len(data) == 0`: the key
\* is missing or its value is empty.
MissingOrEmpty(data, key) == key \notin DOMAIN data \/ data[key] = ""

\* A Sandbox as Build returns it, and the objects of the database absent.
DbFresh ==
    /\ dbPc = "idle"
    /\ dbReady = FALSE
    /\ dbAdminUser = ""
    /\ dbAdminPassword = ""
    /\ dbAddress = ""
    /\ dbSecret = NoSecret
    /\ dbObjects = {}
    /\ dbId = ""
    /\ dbCredsOk = FALSE
    /\ dbSteps = {}
    /\ dbCalls = 0
    /\ dbProvisions = 0
    /\ dbErr = "none"

\* ensureDBServer returns an error, and Database returns it (lines 94-96).
DbFail ==
    /\ dbPc' = "idle"
    /\ dbErr' = "error"

\* Database, lines 91-96, and ensureDBServer, lines 161-163, with the guard
\* removed: every call provisions.
DbCallAlways ==
    /\ dbPc = "idle"
    /\ dbCalls < MaxCalls
    /\ dbCalls' = dbCalls + 1
    /\ dbSteps' = {}
    /\ dbErr' = "running"
    /\ dbPc' = "uuid"
    /\ UNCHANGED <<notDb, dbReady, dbAdminUser, dbAdminPassword, dbAddress,
                   dbSecret, dbObjects, dbId, dbCredsOk, dbProvisions>>

\* Database, lines 91-96, calls ensureDBServer, whose lines 161-163 return at
\* once when dbReady is set.
DbCall ==
    /\ dbPc = "idle"
    /\ dbCalls < MaxCalls
    /\ dbCalls' = dbCalls + 1
    /\ dbSteps' = {}
    /\ dbErr' = "running"
    /\ dbPc' = IF dbReady THEN "admin" ELSE "uuid"
    /\ UNCHANGED <<notDb, dbReady, dbAdminUser, dbAdminPassword, dbAddress,
                   dbSecret, dbObjects, dbId, dbCredsOk, dbProvisions>>

\* ensureDBCredentials, lines 351-356: the password is generated and stored in
\* the sandbox, unless uuid.NewRandom fails.
DbNewRandom(id, ok) ==
    /\ dbPc = "uuid"
    /\ dbCredsOk' = FALSE
    /\ IF ok
         THEN /\ dbAdminUser' = dbAdminUserName
              /\ dbAdminPassword' = id
              /\ dbId' = id
              /\ dbPc' = "secret"
              /\ UNCHANGED dbErr
         ELSE /\ DbFail
              /\ UNCHANGED <<dbAdminUser, dbAdminPassword, dbId>>
    /\ UNCHANGED <<notDb, dbReady, dbAddress, dbSecret, dbObjects, dbSteps,
                   dbCalls, dbProvisions>>

\* ensureDBCredentials, lines 364-377 and 418-422: the secret is created from
\* the credentials of the sandbox; the answer is "ok", "exists" or "error".
DbSecretCreate(answer) ==
    /\ dbPc = "secret"
    /\ answer = "ok" => ~dbSecret.exists
    /\ answer = "exists" => dbSecret.exists
    /\ CASE answer = "ok" ->
              /\ dbSecret' = [exists |-> TRUE,
                              data |-> [username |-> dbAdminUser,
                                        password |-> dbAdminPassword]]
              /\ dbCredsOk' = TRUE
              /\ dbPc' = "pod"
              /\ UNCHANGED dbErr
         [] answer = "exists" ->
              /\ dbPc' = "get"
              /\ UNCHANGED <<dbSecret, dbCredsOk, dbErr>>
         [] OTHER ->
              /\ DbFail
              /\ UNCHANGED <<dbSecret, dbCredsOk>>
    /\ UNCHANGED <<notDb, dbReady, dbAdminUser, dbAdminPassword, dbAddress,
                   dbObjects, dbId, dbSteps, dbCalls, dbProvisions>>

\* ensureDBCredentials, lines 378-416, keeping the generated password instead
\* of line 415.
DbSecretGetKeep(ok) ==
    /\ dbPc = "get"
    /\ LET data == dbSecret.data IN
       CASE ~ok ->
              /\ DbFail
              /\ UNCHANGED <<dbAdminUser, dbAdminPassword, dbCredsOk>>
         [] ok /\ MissingOrEmpty(data, "username") ->
              /\ DbFail
              /\ UNCHANGED <<dbAdminUser, dbAdminPassword, dbCredsOk>>
         [] ok /\ ~MissingOrEmpty(data, "username")
               /\ MissingOrEmpty(data, "password") ->
              /\ dbAdminUser' = data["username"]
              /\ DbFail
              /\ UNCHANGED <<dbAdminPassword, dbCredsOk>>
         [] OTHER ->
              /\ dbAdminUser' = data["username"]
              /\ dbCredsOk' = TRUE
              /\ dbPc' = "pod"
              /\ UNCHANGED <<dbAdminPassword, dbErr>>
    /\ UNCHANGED <<notDb, dbReady, dbAddress, dbSecret, dbObjects, dbId,
                   dbSteps, dbCalls, dbProvisions>>

\* ensureDBCredentials, lines 378-416: the secret exists, so it is read and the
\* user and the password of the sandbox are replaced by the ones it holds; a
\* missing or empty key is an error.
DbSecretGet(ok) ==
    /\ dbPc = "get"
    /\ LET data == dbSecret.data IN
       CASE ~ok ->
              /\ DbFail
              /\ UNCHANGED <<dbAdminUser, dbAdminPassword, dbCredsOk>>
         [] ok /\ MissingOrEmpty(data, "username") ->
              /\ DbFail
              /\ UNCHANGED <<dbAdminUser, dbAdminPassword, dbCredsOk>>
         [] ok /\ ~MissingOrEmpty(data, "username")
               /\ MissingOrEmpty(data, "password") ->
              /\ dbAdminUser' = data["username"]
              /\ DbFail
              /\ UNCHANGED <<dbAdminPassword, dbCredsOk>>
         [] OTHER ->
              /\ dbAdminUser' = data["username"]
              /\ dbAdminPassword' = data["password"]
              /\ dbCredsOk' = TRUE
              /\ dbPc' = "pod"
              /\ UNCHANGED dbErr
    /\ UNCHANGED <<notDb, dbReady, dbAddress, dbSecret, dbObjects, dbId,
                   dbSteps, dbCalls, dbProvisions>>

\* A create call of ensureDBServer with its IsAlreadyExists normalisation: the
\* object is created, or exists already, or the call fails.
DbCreate(pc, kind, next, answer) ==
    /\ dbPc = pc
    /\ answer = "ok" => kind \notin dbObjects
    /\ answer = "exists" => kind \in dbObjects
    /\ IF answer \in {"ok", "exists"}
         THEN /\ dbObjects' = dbObjects \cup {kind}
              /\ dbSteps' = dbSteps \cup {kind}
              /\ dbPc' = next
              /\ UNCHANGED dbErr
         ELSE /\ DbFail
              /\ UNCHANGED <<dbObjects, dbSteps>>
    /\ UNCHANGED <<notDb, dbReady, dbAdminUser, dbAdminPassword, dbAddress,
                   dbSecret, dbId, dbCredsOk, dbCalls, dbProvisions>>

\* ensureDBServer, lines 260-266: the pod.
DbPodCreate(answer) == DbCreate("pod", "pod", "service", answer)

\* ensureDBServer, lines 293-299: the service.
DbServiceCreate(answer) == DbCreate("service", "service", "wait", answer)

\* ensureDBServer, lines 302-308: WaitForPod returns, and on no error the
\* address is calculated.
DbWaitForPod(ok) ==
    /\ dbPc = "wait"
    /\ IF ok
         THEN /\ dbAddress' = dbServiceAddress
              /\ dbSteps' = dbSteps \cup {"wait"}
              /\ dbPc' = "ping"
              /\ UNCHANGED dbErr
         ELSE /\ DbFail
              /\ UNCHANGED <<dbAddress, dbSteps>>
    /\ UNCHANGED <<notDb, dbReady, dbAdminUser, dbAdminPassword, dbSecret,
                   dbObjects, dbId, dbCredsOk, dbCalls, dbProvisions>>

\* ensureDBServer, lines 312-324: WaitForDB returns.
DbWaitForDB(ok) ==
    /\ dbPc = "ping"
    /\ IF ok
         THEN /\ dbSteps' = dbSteps \cup {"ping"}
              /\ dbPc' = "sequence"
              /\ UNCHANGED dbErr
         ELSE /\ DbFail
              /\ UNCHANGED dbSteps
    /\ UNCHANGED <<notDb, dbReady, dbAdminUser, dbAdminPassword, dbAddress,
                   dbSecret, dbObjects, dbId, dbCredsOk, dbCalls, dbProvisions>>

\* ensureDBServer, lines 327-346: the sequence is created and dbReady is set,
\* unless sql.Open or Exec fails.
DbCreateSequence(ok) ==
    /\ dbPc = "sequence"
    /\ IF ok
         THEN /\ dbSteps' = dbSteps \cup {"sequence"}
              /\ dbReady' = TRUE
              /\ dbProvisions' = dbProvisions + 1
              /\ dbPc' = "admin"
              /\ UNCHANGED dbErr
         ELSE /\ DbFail
              /\ UNCHANGED <<dbSteps, dbReady, dbProvisions>>
    /\ UNCHANGED <<notDb, dbAdminUser, dbAdminPassword, dbAddress, dbSecret,
                   dbObjects, dbId, dbCredsOk, dbCalls>>

\* Database, lines 98-156: the user and the database are created with the
\* administrator's connection, or one of the statements fails.
DbAdmin(ok) ==
    /\ dbPc = "admin"
    /\ dbPc' = "idle"
    /\ dbErr' = IF ok THEN "nil" ELSE "error"
    /\ UNCHANGED <<notDb, dbReady, dbAdminUser, dbAdminPassword, dbAddress,
                   dbSecret, dbObjects, dbId, dbCredsOk, dbSteps, dbCalls,
                   dbProvisions>>

Answers == {"ok", "exists", "error"}

DbNext ==
    \/ DbCall
    \/ \E id \in Ids, ok \in BOOLEAN : DbNewRandom(id, ok)
    \/ \E answer \in Answers : DbSecretCreate(answer)
    \/ \E ok \in BOOLEAN : DbSecretGet(ok)
    \/ \E answer \in Answers : DbPodCreate(answer)
    \/ \E answer \in Answers : DbServiceCreate(answer)
    \/ \E ok \in BOOLEAN : DbWaitForPod(ok)
    \/ \E ok \in BOOLEAN : DbWaitForDB(ok)
    \/ \E ok \in BOOLEAN : DbCreateSequence(ok)
    \/ \E ok \in BOOLEAN : DbAdmin(ok)

\* ========================================================= specifications

\* The cleaner command is started; no server runs.
InitCleaner ==
    /\ now = 0
    /\ clnWait \in 0..MaxWait
    /\ clnPc = "check"
    /\ ClnFresh
    /\ srvToken = TokenA
    /\ SrvIdle
    /\ keep = FALSE
    /\ rPc = "off"
    /\ RunFresh
    /\ WaitFresh
    /\ EnvFresh
    /\ DbFresh

NextCleaner == ClnNext \/ Tick

\* The cleaner command alone, with arbitrary scheduling delays.
SpecCleaner == InitCleaner /\ [][NextCleaner]_vars

\* The cleaner command with arbitrary delays, every step of its own that
\* stays possible being taken eventually; a signal may never be sent, and
\* execute then waits for one for ever.
SpecCleanerFair ==
    /\ InitCleaner
    /\ [][NextCleaner]_vars
    /\ WF_vars(ClnSteps)
    /\ WF_vars(Tick)

\* A cleaner has been built by CleanerBuilder.Build, with a wait that is not
\* zero, and its caller is about to use it.
InitCleanerAPI ==
    /\ now = 0
    /\ clnWait \in 1..MaxWait
    /\ clnPc = "start"
    /\ ClnFresh
    /\ srvToken = TokenA
    /\ SrvIdle
    /\ keep = FALSE
    /\ rPc = "off"
    /\ RunFresh
    /\ WaitFresh
    /\ EnvFresh
    /\ DbFresh

NextCleanerAPI ==
    \/ ClnStart
    \/ ApiDestroy
    \/ GoEnterSelect
    \/ TimerFire
    \/ GoRecvClosed
    \/ \E res \in {"ok", "error"} : GoRecvTimer(res)
    \/ Tick

\* A caller that starts the cleaner or not, and calls Destroy at any moment
\* without calling Stop.
SpecCleanerAPI == InitCleanerAPI /\ [][NextCleanerAPI]_vars

\* The server is started with some token; no cleaner process runs.
InitServer ==
    /\ now = 0
    /\ clnWait = 0
    /\ clnPc = "off"
    /\ ClnFresh
    /\ srvToken \in Tokens
    /\ SrvIdle
    /\ keep = FALSE
    /\ rPc = "off"
    /\ RunFresh
    /\ WaitFresh
    /\ EnvFresh
    /\ DbFresh

\* The server alone.
SpecServer == InitServer /\ [][SrvNext]_vars

\* The requests the runner sends: the registered route with the token the
\* server was started with, any body.
AuthorizedRequests ==
    {req \in Requests :
        /\ Route(req.method, req.path) = "tests"
        /\ req.auth = StrBearer \o <<Space>> \o srvToken}

NextConcurrent ==
    \E h \in Handlers :
        \/ \E req \in AuthorizedRequests : SrvReceive(h, req)
        \/ SrvHandle(h)

\* The server serving authorized requests on several connections at once.
SpecConcurrent == InitServer /\ [][NextConcurrent]_vars

\* A call of WaitForPod or WaitForRoute; nothing else runs.
InitWait ==
    /\ now = 0
    /\ clnWait = 0
    /\ clnPc = "off"
    /\ ClnFresh
    /\ srvToken = TokenA
    /\ SrvIdle
    /\ keep = FALSE
    /\ rPc = "off"
    /\ RunFresh
    /\ WaitFresh
    /\ EnvFresh
    /\ DbFresh

\* One call of a wait function on any stream of events.
SpecWait == InitWait /\ [][WaitNext]_vars

\* The server prepares the environment of one test; nothing else runs.
InitEnv ==
    /\ now = 0
    /\ clnWait = 0
    /\ clnPc = "off"
    /\ ClnFresh
    /\ srvToken = TokenA
    /\ SrvIdle
    /\ keep = FALSE
    /\ rPc = "off"
    /\ RunFresh
    /\ WaitFresh
    /\ EnvFresh
    /\ DbFresh

\* The environment of the subprocess of one request, for any environment of
\* the server and any env of the request.
SpecEnv == InitEnv /\ [][EnvNext]_vars

\* The runner command is started on a cluster where nothing of the sandbox
\* exists.
InitRunner ==
    /\ now = 0
    /\ clnWait = 0
    /\ clnPc = "off"
    /\ ClnFresh
    /\ srvToken = <<>>
    /\ SrvIdle
    /\ keep \in BOOLEAN
    /\ rPc = "args"
    /\ RunFresh
    /\ WaitFresh
    /\ EnvFresh
    /\ DbFresh

NextRunner == RunNext \/ RunnerCrash

\* The runner command and the API server; the pods are not followed.
SpecRunner == InitRunner /\ [][NextRunner]_vars

\* The same, where the runner command goes on as long as it can and is not
\* killed: each step it takes is a call that returns.
SpecRunnerFair == InitRunner /\ [][NextRunner]_vars /\ WF_vars(RunNext)

\* The cleaner pod: its container may start or not, the command runs as in
\* the cleaner alone, signals included, and the process may be killed. A
\* restart of the container is not followed.
PodNext ==
    \/ CleanerPodStart
    \/ ClnSteps
    \/ ClnSignal
    \/ CleanerPodKill

NextSandbox == RunNext \/ RunnerCrash \/ PodNext \/ Tick

\* The runner command, the cleaner pod it creates and the clock. A cleaner
\* process that runs eventually takes the steps it can take and the clock
\* advances; nothing makes the container start, and the runner and the
\* cleaner process may stop at any point, killed or not.
SpecSandbox ==
    /\ InitRunner
    /\ [][NextSandbox]_vars
    /\ WF_vars(ClnSteps)
    /\ WF_vars(Tick)

\* A Sandbox whose Database method is called, in a project where the secret of
\* the administrator may exist already.
InitDb ==
    /\ now = 0
    /\ clnWait = 0
    /\ clnPc = "off"
    /\ ClnFresh
    /\ srvToken = TokenA
    /\ SrvIdle
    /\ keep = FALSE
    /\ rPc = "off"
    /\ RunFresh
    /\ WaitFresh
    /\ EnvFresh
    /\ dbPc = "idle"
    /\ dbReady = FALSE
    /\ dbAdminUser = ""
    /\ dbAdminPassword = ""
    /\ dbAddress = ""
    /\ dbSecret \in Secrets
    /\ dbObjects = {}
    /\ dbId = ""
    /\ dbCredsOk = FALSE
    /\ dbSteps = {}
    /\ dbCalls = 0
    /\ dbProvisions = 0
    /\ dbErr = "none"

\* The calls of Sandbox.Database of one test process, one after the other.
SpecDb == InitDb /\ [][DbNext]_vars

\* ================================================================= claims

\* The clock value at which the configured wait has elapsed.
Deadline == timerStart + clnWait

\* Stop() was called before the configured wait had elapsed.
StoppedEarly == \E i \in 1..Len(stopCalls) : stopCalls[i] < Deadline

\* The goroutine of Start has taken one case of its select.
Resolved == gPc \in {"fired", "stopped"}

\* No delete call is issued before the configured wait has elapsed, and never
\* more than one.
C1_NotEarlyAtMostOnce ==
    timer # None =>
        /\ Len(clnDeletes) <= 1
        /\ \A i \in 1..Len(clnDeletes) : clnDeletes[i] >= Deadline

\* C1: after Start, if Stop() is called before the configured wait has elapsed
\* the delete call is never issued; if it is not called, or only after the
\* wait has elapsed, the delete call is issued exactly once, as soon as the
\* goroutine has taken its case; and no delete call is ever issued before the
\* wait has elapsed.
C1_TimerContract ==
    timer # None =>
        /\ Len(clnDeletes) <= 1
        /\ \A i \in 1..Len(clnDeletes) : clnDeletes[i] >= Deadline
        /\ StoppedEarly => clnDeletes = <<>>
        /\ (Resolved /\ ~StoppedEarly) => Len(clnDeletes) = 1

\* Stop() was called before the deadline and blocks; the goroutine reached
\* its select only after the timer had fired, and deleted the project.
C1_EarlyStopDeleted ==
    /\ StoppedEarly
    /\ gPc = "fired"
    /\ Len(clnDeletes) = 1
    /\ clnDeletes[1] >= Deadline

\* The Authorization value is a bearer credential with exactly the token
\* `tok`: the word "bearer" in any case, one space, the token, nothing else.
HasCredential(a, tok) ==
    \E k \in 1..Len(a) :
        /\ a[k] = Space
        /\ EqualFold(SubSeq(a, 1, k - 1), StrLowerBearer)
        /\ SubSeq(a, k + 1, Len(a)) = tok

\* The request of connection h is one to the execution endpoint.
ToEndpoint(h) ==
    /\ hReq[h] # NoReq
    /\ hReq[h].method = "POST"
    /\ hReq[h].path = TestsPath

\* C2: a request to the execution endpoint whose Authorization header does
\* not carry exactly the configured token causes no side effect: its body is
\* not parsed, no test directory is chosen or created, no binary is written
\* and no subprocess is spawned; the handler chain ends at the middleware.
C2_AuthGate ==
    \A h \in Handlers :
        (ToEndpoint(h) /\ ~HasCredential(hReq[h].auth, srvToken))
            => /\ hEff[h] = {}
               /\ hDir[h] = 0
               /\ hPc[h] = "done"

\* C2 witness: a request with the token of another server was answered, and
\* the work directory is still empty.
C2_Witness ==
    /\ ToEndpoint(1)
    /\ hReq[1].auth = StrBearer \o <<Space>> \o TokenB
    /\ srvToken = TokenA
    /\ hResp[1].status = 401
    /\ hEff[1] = {}
    /\ \A d \in DirIds : ~fs[d].exists

\* The Authorization value is 'Bearer <token>' with a token other than `tok`.
IsWrongBearer(a, tok) ==
    /\ Len(a) > Len(StrBearer)
    /\ SubSeq(a, 1, Len(StrBearer) + 1) = StrBearer \o <<Space>>
    /\ \A i \in (Len(StrBearer) + 2)..Len(a) : a[i] # Space
    /\ SubSeq(a, Len(StrBearer) + 2, Len(a)) # tok

\* C3: a request to the endpoint without Authorization header is answered
\* 400 with the reason that the header is mandatory, and one with a well-formed
\* 'Bearer <token>' header whose token is not the configured one is answered 401.
C3_AuthStatus ==
    \A h \in Handlers :
        ToEndpoint(h) =>
            /\ hReq[h].auth = <<>> =>
                   /\ hPc[h] = "done"
                   /\ hResp[h].status = 400
                   /\ hResp[h].reason = "Authorization header is mandatory"
            /\ IsWrongBearer(hReq[h].auth, srvToken) =>
                   /\ hPc[h] = "done"
                   /\ hResp[h].status = 401

\* C3 witness: a request without the header was answered 400.
C3_Witness ==
    /\ ToEndpoint(1)
    /\ hReq[1].auth = <<>>
    /\ hResp[1].status = 400

\* C3, second case: a well-formed header with a wrong token was answered 401.
C3_WitnessWrongToken ==
    /\ ToEndpoint(1)
    /\ IsWrongBearer(hReq[1].auth, srvToken)
    /\ hResp[1].status = 401

\* --- the run command
SendFailed(o) == o \in {"transport", "status"}

\* Build returned a runner.
Provisioned == ~buildErr /\ rAddr # ""

\* C4: The run command exits with code 0 only if provisioning succeeded and
\* every binary found was read, sent and answered with a result whose code
\* is zero; with a binary skipped, a send failed or a code other than zero
\* the exit code is not 0.
C4_ExitZeroOnlyIfAllPassed ==
    rExit = 0 =>
        /\ Provisioned
        /\ Len(outcomes) = Len(binaries)
        /\ \A i \in 1..Len(outcomes) : outcomes[i] = "pass"

\* The number of calls of Send among the first i binaries.
SendsUpTo(i) == Cardinality({j \in 1..i : outcomes[j] # "skipped"})

\* C5: Once Send has failed for a binary no later binary is sent, and Run
\* returns an error.
C5_SendFailureAborts ==
    \A i \in 1..Len(outcomes) :
        SendFailed(outcomes[i]) =>
            /\ Len(sent) = SendsUpTo(i)
            /\ rPc \in {"destroy", "exit"} => runErr

\* C6: Runner.Destroy issues a delete of the project if and only if keep is
\* false.
C6_DeleteIffNotKeep ==
    rDestroyCalls > 0 => (rDeletes > 0 <=> ~keep)

\* C7: With keep set the runner never issues a create call for the cleaner
\* account, role binding or pod, no such resource appears, and no cleaner
\* process or timer ever exists.
C7_KeepNoCleaner ==
    keep =>
        /\ createCalls \cap CleanerResources = {}
        /\ cluster \cap CleanerResources = {}
        /\ clnPc = "off"
        /\ timer = None

\* A run with keep that provisioned everything, ran a binary and exited.
C7_Witness ==
    /\ keep
    /\ rPc = "exit"
    /\ "route/server" \in createCalls
    /\ outcomes # <<>>

DeletionAttempted == clnDeletes # <<>> \/ rDeletes > 0

\* C8: Once the project has been created without keep, its deletion is
\* eventually attempted, whatever happens to the runner later.
C8_ProjectEventuallyDeleted ==
    (~keep /\ "project" \in cluster) ~> DeletionAttempted

\* The runner was killed after it had created the project and before it
\* created the cleaner pod: the project is there and nothing will delete it.
C8_WitnessOrphan ==
    /\ ~keep
    /\ "project" \in cluster
    /\ "pod/cleaner" \notin createCalls
    /\ rPc = "crashed"
    /\ ~DeletionAttempted

\* C9: When the watch of the pod or of the route ends without a ready
\* snapshot, the wait returns an error, so that Build fails and no request is
\* ever sent.
C9_TimeoutAborts ==
    waitTimedOut # {} => buildErr /\ sent = <<>>

\* C10: When a step of Build has returned an error, no binary is ever sent
\* and the run command has exited with a code other than zero.
C10_BuildErrorAborts ==
    buildErr => sent = <<>> /\ rPc = "exit" /\ rExit > 0

\* The liveness probe failed after everything else had succeeded.
C10_Witness ==
    /\ buildErr
    /\ rAddr # ""
    /\ rPc = "exit"
    /\ rExit = 1
    /\ "route/server" \in cluster

\* The requests of the runner that have been sent and not yet answered.
Pending == Len(sent) - SendsUpTo(Len(outcomes))

\* C11: The binaries are sent in the lexicographic order of their names, each
\* one at most once, and a request is sent only after the previous one has
\* been answered or has failed: at most one request is pending.
C11_SequentialInOrder ==
    /\ \A i, j \in 1..Len(sent) : i < j => LexLess(sent[i], sent[j])
    /\ \A i \in 1..Len(sent) : \E j \in 1..Len(binaries) : binaries[j] = sent[i]
    /\ Pending \in {0, 1}
    /\ Pending = 1 <=> inFlight
    /\ inFlight => rPc \in {"send", "crashed"}

\* Two binaries, the name of the first a prefix of the name of the second,
\* have been sent and answered.
C11_Witness ==
    /\ sent = <<<<1>>, <<1, 2>>>>
    /\ Len(outcomes) = 2
    /\ rPc = "exit"

\* --- the tests handler
\* C12: A 200 response carries the exit code of the subprocess that ran the
\* binary of the request (0 exactly for the binary that exits with status 0)
\* and the bytes that subprocess wrote to its standard output and error.
C12_ResultMatchesProcess ==
    \A h \in Handlers :
        hResp[h].status = 200 =>
            LET p == Program(hReq[h].body) IN
                /\ p.starts
                /\ hResp[h].code = p.code
                /\ hResp[h].out = p.out
                /\ hResp[h].err = p.err
                /\ hResp[h].code = 0 <=> hReq[h].body = "pass"

\* A 200 response for the binary that exits with status 1.
C12_Witness ==
    \E h \in Handlers :
        /\ hResp[h].status = 200
        /\ hReq[h].body = "fail"
        /\ hResp[h].code = 1
        /\ hResp[h].err = <<"n", "o">>

\* The handler of connection h has reached the run of the binary: it wrote
\* the binary and created both output files in its directory.
AtRun(h) == "binary" \in hEff[h] /\ fs[hDir[h]].hasErr

ExecError == ErrorResp(500, "Can't execute test binary")

ReadBackErrors ==
    {ErrorResp(500, "Can't read output file"), ErrorResp(500, "Can't read errors file")}

\* C13, as stated: a subprocess that could not be started always gives the
\* 500 response of the run step and never a 200 response; a subprocess that
\* was started always gives a 200 response with its exit code, zero or not,
\* and never an error.
C13_StartedAlways200 ==
    \A h \in Handlers :
        /\ hResp[h].status = 200 =>
              "spawn" \in hEff[h] /\ Program(hReq[h].body).starts
        /\ hPc[h] = "done" /\ AtRun(h) =>
              IF "spawn" \in hEff[h]
                THEN /\ hResp[h].status = 200
                     /\ hResp[h].code = Program(hReq[h].body).code
                ELSE hResp[h] = ExecError

\* C13: A subprocess that could not be started always gives the 500 response
\* of the run step and never a 200 response; a subprocess that was started
\* never gives that error: the handler goes on to read the output files back
\* and answers 200 with the exit code of the subprocess, zero or not, unless
\* the read fails, which gives the 500 response of the read, whatever the
\* exit code.
C13_SpawnErrorExitCode ==
    \A h \in Handlers :
        /\ "spawn" \in hEff[h] => Program(hReq[h].body).starts
        /\ hResp[h].status = 200 =>
              "spawn" \in hEff[h] /\ Program(hReq[h].body).starts
        /\ hPc[h] = "done" /\ AtRun(h) =>
              IF "spawn" \in hEff[h]
                THEN \/ /\ hResp[h].status = 200
                        /\ hResp[h].code = Program(hReq[h].body).code
                     \/ hResp[h] \in ReadBackErrors
                ELSE hResp[h] = ExecError

\* The binary of the request could not be started and the response is the 500
\* of the run step.
C13_Witness ==
    \E h \in Handlers :
        /\ hPc[h] = "done"
        /\ AtRun(h)
        /\ hReq[h].body = "noexec"
        /\ hResp[h] = ExecError

\* A started subprocess ended with status 1 and the response is a 500.
C13_WitnessReadBack ==
    \E h \in Handlers :
        /\ hPc[h] = "done"
        /\ "spawn" \in hEff[h]
        /\ hCode[h] = 1
        /\ hResp[h] \in ReadBackErrors

\* The handler of connection h has created its working directory.
HasDir(h) == "dir" \in hEff[h]

\* The request of connection h passed authentication and parsing.
PassedParsing(h) == "parsed" \in hEff[h] /\ hReq[h].body # MalformedBody

\* The responses of a request for which no directory could be allocated.
AllocErrors ==
    {ErrorResp(500, "Can't generate test identifier"),
     ErrorResp(500, "Can't generate test directory")}

EmptyDir == [NoDir EXCEPT !.exists = TRUE]

\* The handlers that are past the creation of the directory all have one, no
\* two of them the same, and no more directories exist than requests came.
DirsDistinct ==
    /\ \A h \in Handlers :
          hPc[h] \in {"write", "openOut", "openErr", "run", "running", "readOut",
                      "readErr"}
              => HasDir(h) /\ fs[hDir[h]].exists
    /\ \A g, h \in Handlers : g # h /\ HasDir(g) /\ HasDir(h) => hDir[g] # hDir[h]
    /\ Cardinality({d \in DirIds : fs[d].exists}) <= nReq

\* A step that gives a handler its directory creates a directory that did not
\* exist, empty, and a directory changes only by a step of the handler that
\* created it for its current request.
DirsFresh ==
    /\ \A h \in Handlers :
          ~HasDir(h) /\ HasDir(h)' =>
              /\ ~fs[hDir[h]].exists
              /\ fs'[hDir[h]] = EmptyDir
    /\ \A d \in DirIds :
          fs'[d] # fs[d] =>
              \E h \in Handlers :
                  /\ hDir[h] = d
                  /\ HasDir(h)'
                  /\ \A g \in Handlers \ {h} : UNCHANGED <<hPc[g], hEff[g]>>

\* A step gives at most one handler its directory and adds at most that one
\* directory to the work root.
OneDirAtATime ==
    /\ Cardinality({h \in Handlers : ~HasDir(h) /\ HasDir(h)'}) <= 1
    /\ Cardinality({d \in DirIds : fs'[d].exists /\ ~fs[d].exists})
           = Cardinality({h \in Handlers : ~HasDir(h) /\ HasDir(h)'})

\* C14, as stated: every request that passed authentication and parsing has
\* created exactly one directory, new and empty; no two requests, concurrent
\* or one after the other, use the same directory, and a request finds
\* nothing written for an earlier one in its directory.
C14_EveryParsedRequestOneDir ==
    /\ []DirsDistinct
    /\ [][DirsFresh /\ OneDirAtATime]_vars
    /\ [](\A h \in Handlers :
              hPc[h] = "done" /\ PassedParsing(h) =>
                  HasDir(h) /\ fs[hDir[h]].exists)

\* C14: A request that passed authentication and parsing creates exactly one
\* directory, new and empty, when its identifier and its directory could be
\* created, and none otherwise, the response being then one of the errors of
\* the allocation; no request creates more than one; no two requests,
\* concurrent or one after the other, use the same directory, and a request
\* finds nothing written for an earlier one in its directory.
C14_PrivateDirectory ==
    /\ []DirsDistinct
    /\ [][DirsFresh /\ OneDirAtATime]_vars
    /\ [](\A h \in Handlers :
              hPc[h] = "done" =>
                  /\ HasDir(h) <=> PassedParsing(h) /\ hResp[h] \notin AllocErrors
                  /\ HasDir(h) => fs[hDir[h]].exists)

\* Two concurrent requests have written their binaries, each into its own
\* directory.
C14_Witness ==
    /\ HasDir(1) /\ HasDir(2)
    /\ fs[hDir[1]].binary = "pass"
    /\ fs[hDir[2]].binary = "fail"
    /\ hDir[1] # hDir[2]

\* A request got the identifier of an earlier request: it has no directory
\* and ends with a 500.
C14_WitnessCollision ==
    \E h \in Handlers :
        /\ hPc[h] = "done"
        /\ hDir[h] # 0
        /\ ~HasDir(h)
        /\ fs[hDir[h]].binary # ""
        /\ hResp[h] = ErrorResp(500, "Can't generate test directory")

\* C15: Whatever the interleaving of the handlers of concurrent requests,
\* the directory of each holds its own binary and the output of its own
\* subprocess only, and its response carries the exit code and the output of
\* that subprocess.
C15_OwnResult ==
    \A h \in Handlers :
        LET p == Program(hReq[h].body) IN
            /\ "binary" \in hEff[h] => fs[hDir[h]].binary = hReq[h].body
            /\ hPc[h] = "running" =>
                  /\ \E n \in 0..Len(p.out) : fs[hDir[h]].out = SubSeq(p.out, 1, n)
                  /\ \E n \in 0..Len(p.err) : fs[hDir[h]].err = SubSeq(p.err, 1, n)
            /\ "spawn" \in hEff[h] /\ hPc[h] # "running" =>
                  /\ hCode[h] = p.code
                  /\ fs[hDir[h]].out = p.out
                  /\ fs[hDir[h]].err = p.err
            /\ hResp[h].status = 200 =>
                  /\ hResp[h].code = p.code
                  /\ hResp[h].out = p.out
                  /\ hResp[h].err = p.err

\* Two requests with different binaries have both run their subprocess and
\* neither has read its output back yet.
C15_Witness ==
    /\ hPc[1] = "readOut"
    /\ hPc[2] = "readOut"
    /\ hReq[1].body = "fail"
    /\ hReq[2].body = "killed"
    /\ hCode[1] = 1
    /\ hCode[2] = -1

\* Two subprocesses run at the same time, each one half way through its
\* output in its own directory.
C15_WitnessRunning ==
    /\ hPc[1] = "running"
    /\ hPc[2] = "running"
    /\ hReq[1].body = "pass"
    /\ hReq[2].body = "fail"
    /\ fs[hDir[1]].out = <<"o">>
    /\ fs[hDir[2]].err = <<"n">>

\* The subprocess of a request never exits: the handler stays in Run and no
\* response is written.
HangNeverAnswered ==
    \A h \in Handlers : hReq[h].body = "hang" /\ "spawn" \in hEff[h] =>
        hPc[h] = "running" /\ hResp[h] = NoResp

\* --- the cleaner and its command
\* C16: On every path through execute, the deferred calls included, Stop is
\* never called on a cleaner whose Destroy has closed the stop channel: the
\* command does not panic.
C16_NoStopAfterDestroy ==
    /\ clnPc = "deferStop" => stopCh # "closed"
    /\ clnPc # "panic"
    /\ clnExit # 2

\* The stop signal was consumed or the delete was issued, never both, and
\* the delete at most once.
OneOutcome ==
    /\ Len(clnDeletes) <= 1
    /\ stopReturned => gPc = "stopped" /\ clnDeletes = <<>>
    /\ clnDeletes # <<>> => gPc = "fired" /\ timer = "fired" /\ ~stopReturned
    /\ gPc = "fired" => Len(clnDeletes) = 1
    /\ gPc = "stopped" => stopReturned

\* C17: After Start exactly one of the two cases of the select resolves the
\* armed cleaner, whatever the interleaving of Stop with the expiry of the
\* timer: the stop signal is consumed and no delete is ever issued, or the
\* delete is issued once, the timer staying fired; the outcome never changes
\* and the delete is never issued again.
C17_ExactlyOneOutcome ==
    /\ []OneOutcome
    /\ [][Resolved => gPc' = gPc /\ clnDeletes' = clnDeletes
                      /\ (timer = "fired" => timer' = "fired")]_vars

\* The timer had expired when the goroutine chose the stop case: no delete.
C17_Witness ==
    /\ gPc = "stopped"
    /\ timer = "fired"
    /\ stopReturned
    /\ clnDeletes = <<>>

\* C18: A call of Stop on a started cleaner returns, whether the timer has
\* already expired or not.
C18_StopReturns == StopSenderWaiting ~> stopReturned

\* The request of connection h is not a POST on the tests path.
Unmatched(h) ==
    /\ hPc[h] # "idle"
    /\ hReq[h].path # TestsPath \/ hReq[h].method # "POST"

NotFoundResp == ErrorResp(404, "Can't find resource for path")

\* C19: Every request that is not a POST on the tests path gets
\* the 404 response with a reason and never reaches the tests handler.
C19_Unmatched404 ==
    \A h \in Handlers :
        Unmatched(h) => hPc[h] = "done" /\ hResp[h] = NotFoundResp /\ hEff[h] = {}

\* What the server does with these requests: a request on another path gets
\* the 404 response with a reason, a request on the tests path with another
\* method than POST gets a 405 response without a reason; neither reaches the
\* tests handler.
C19_UnmatchedNotHandled ==
    \A h \in Handlers :
        Unmatched(h) =>
            /\ hPc[h] = "done"
            /\ hEff[h] = {}
            /\ hResp[h] = IF hReq[h].path # TestsPath THEN NotFoundResp
                          ELSE ErrorResp(405, "")

\* A GET on the tests path with the token of the server was answered 405.
C19_Witness ==
    \E h \in Handlers :
        /\ hPc[h] = "done"
        /\ hReq[h].path = TestsPath
        /\ hReq[h].method = "GET"
        /\ hReq[h].auth = StrBearer \o <<Space>> \o srvToken
        /\ hResp[h].status = 405

\* A POST on another path with the token of the server was answered 404.
C19_WitnessNotFound ==
    \E h \in Handlers :
        /\ hPc[h] = "done"
        /\ hReq[h].path # TestsPath
        /\ hReq[h].method = "POST"
        /\ hReq[h].auth = StrBearer \o <<Space>> \o srvToken
        /\ hResp[h] = NotFoundResp

\* The resources of the create calls of Build up to and including `step`.
CreatedUpTo(step, k) ==
    LET steps == BuildSteps(k)
        i == CHOOSE j \in 1..Len(steps) : steps[j] = step
    IN  {Resource(steps[j]) : j \in {n \in 1..i : steps[n] \in CreateSteps}}

\* C20: After a create call answered with success or with already exists,
\* Build is at the step that follows the call, without an error. After a
\* create call answered with another error the command has exited with code
\* 1: no create call was issued for a resource of a later step, the server
\* object was not set, and Run and Destroy were never called.
C20_CreateAnswers ==
    /\ lastCreate.res \in {"ok", "exists"} =>
           /\ ~buildErr
           /\ rPc \in {StepAfter(lastCreate.step, keep), "crashed"}
           /\ rExit \in {-1, 137}
           /\ Resource(lastCreate.step) \in createCalls
    /\ lastCreate.res = "error" =>
           /\ buildErr
           /\ rPc = "exit"
           /\ rExit = 1
           /\ createCalls \subseteq CreatedUpTo(lastCreate.step, keep)
           /\ rAddr = ""
           /\ binaries = <<>>
           /\ sent = <<>>
           /\ rDestroyCalls = 0

\* The second create call of the service account of the server was answered
\* with already exists, and Build is at the next create call.
C20_Witness ==
    /\ lastCreate = [step |-> "acct2", res |-> "exists"]
    /\ "sa/server" \in cluster
    /\ rPc = "bind2"

\* The create call of the server pod failed after the calls before it had
\* succeeded or found their resources.
C20_WitnessError ==
    /\ lastCreate = [step |-> "pod", res |-> "error"]
    /\ "rb/server" \in cluster
    /\ rPc = "exit"

\* The step by step loop returns what WaitLoop computes for the events seen.
WaitAgrees ==
    wPc = "returned" /\ wErr # "watch" =>
        WaitLoop(wKind, wSeen, 1, NoObj) = [obj |-> wObj, err |-> wErr]

\* --- provisioning of the server
\* Build has returned the runner: the Server object is set.
Usable == rPc = "built"

\* C21: The Server object is set only after the wait for the pod has ended
\* with a ready snapshot, the wait for the route has ended with an admitted
\* snapshot, from which the address was computed, and the probe loop has
\* succeeded.
C21_UsableAfterReady ==
    Usable =>
        /\ ~buildErr
        /\ "pod" \notin waitTimedOut
        /\ "route" \notin waitTimedOut
        /\ rAddr # ""
        /\ probes = 0

\* --- the steps of the tests handler
HandlerSteps == <<"decode", "uuid", "mkdir", "write", "openOut", "openErr",
                  "run", "running", "readOut", "readErr">>

IsHandlerStep(pc) == \E i \in 1..Len(HandlerSteps) : HandlerSteps[i] = pc

StepIndex(pc) == CHOOSE i \in 1..Len(HandlerSteps) : HandlerSteps[i] = pc

\* What has been done for the request of connection h was done on top of the
\* steps before it, and a response is written exactly when the handler is done.
StepsBuildUp(h) ==
    /\ "dir" \in hEff[h] => "parsed" \in hEff[h] /\ hReq[h].body # MalformedBody
    /\ "binary" \in hEff[h] => "dir" \in hEff[h] /\ fs[hDir[h]].binary = hReq[h].body
    /\ "spawn" \in hEff[h] =>
           "binary" \in hEff[h] /\ fs[hDir[h]].hasOut /\ fs[hDir[h]].hasErr
    /\ hResp[h].status = 200 => "spawn" \in hEff[h]
    /\ hResp[h].status = 400 => hEff[h] \subseteq {"parsed"}
    /\ hResp[h].status # 0 <=> hPc[h] = "done"

\* A step of the handler of connection h goes to the next step without a
\* response or ends the request with the response of its failure (400 for
\* the body, 500 for the later steps, and 200 after the last one); after the
\* response nothing more is done for the request.
StepsInOrder(h) ==
    /\ IsHandlerStep(hPc[h]) /\ hPc'[h] # hPc[h] =>
           IF hPc'[h] = "done"
             THEN hResp'[h].status \in
                      CASE hPc[h] = "decode" -> {400}
                        [] hPc[h] = "readErr" -> {200, 500}
                        [] OTHER -> {500}
             ELSE /\ StepIndex(hPc[h]) < Len(HandlerSteps)
                  /\ hPc'[h] = HandlerSteps[StepIndex(hPc[h]) + 1]
                  /\ hResp'[h].status = 0
    /\ hPc[h] = "done" =>
           /\ hResp'[h] \in {hResp[h], NoResp}
           /\ hEff'[h] \in {hEff[h], {}}
           /\ hDir[h] # 0 => fs'[hDir[h]] = fs[hDir[h]]

\* C22: The handler runs its steps in the order parse, allocate, persist,
\* spawn and wait, read output; the first step that fails ends the request
\* with a 400 (body) or a 500 (later steps), no step is executed after it,
\* and one response is written per request.
C22_FirstFailureResponds ==
    /\ [](\A h \in Handlers : StepsBuildUp(h))
    /\ [][\A h \in Handlers : StepsInOrder(h)]_vars

\* The read of the standard error file failed after the binary had run.
C22_Witness ==
    /\ hPc[1] = "done"
    /\ hResp[1] = ErrorResp(500, "Can't read errors file")
    /\ hEff[1] = {"parsed", "dir", "binary", "spawn"}

\* --- the wait functions
\* Event i of the events seen carries a snapshot that satisfies the predicate.
ReadyAt(i) ==
    /\ wSeen[i].type \in {"ADDED", "MODIFIED"}
    /\ wSeen[i].obj.kind = wKind
    /\ isReady(wKind, wSeen[i].obj)

\* C23: Once an event with a snapshot that satisfies the predicate has been
\* received, the call returns that snapshot and no error, whatever events
\* follow it.
C23_ReturnsFirstReady ==
    \A i \in 1..Len(wSeen) :
        /\ ReadyAt(i)
        /\ \A j \in 1..(i - 1) : ~ReadyAt(j)
        => wObj = wSeen[i].obj /\ wErr = "nil"

\* Event i of the events seen is a Deleted or an Error event and no event
\* before it carried a snapshot that satisfies the predicate.
FailedAt(i) ==
    /\ wSeen[i].type \in {"DELETED", "ERROR"}
    /\ \A j \in 1..(i - 1) : ~ReadyAt(j)

\* C24: When a Deleted or an Error event is received before a snapshot
\* satisfied the predicate, the watch is stopped and the call has returned
\* the corresponding error and no snapshot; the event is the last one it
\* received.
C24_FailsAtOnce ==
    \A i \in 1..Len(wSeen) :
        FailedAt(i) =>
            /\ wPc = "returned"
            /\ i = Len(wSeen)
            /\ wErr = IF wSeen[i].type = "DELETED" THEN "deleted" ELSE "error"
            /\ wObj = NoObj
            /\ wStops = 1

\* The pod was deleted after a snapshot of it that was not ready.
C24_Witness ==
    /\ wKind = "Pod"
    /\ wSeen = <<Event("ADDED", PodServerPending), Event("DELETED", PodServerPending)>>
    /\ wPc = "returned"
    /\ wErr = "deleted"

\* The name ensureServer passes to WaitForPod and to WaitForRoute.
WaitedName == "server"

\* C25: The snapshot a wait returns is of the resource it was called for, and
\* an event about another resource does not end the wait.
C25_ReturnsNamedResource ==
    /\ wObj # NoObj => wObj.name = WaitedName
    /\ wStops > 0 =>
           \E i \in 1..Len(wSeen) :
               wSeen[i].type # "ERROR" => wSeen[i].obj.name = WaitedName

\* --- the probe loop
\* The runner is inside WaitForServer: about to probe, waiting for the answer
\* of a probe that never comes, or asleep between two probes.
InWaitForServer == rPc \in {"waitServer", "hung", "sleep"}

\* A probe was made: a step of WaitForServer.
Probed == rPc = "waitServer" /\ rPc' # "crashed" /\ lastProbe' # ""

\* The sleep between two probes has ended.
Slept == rPc = "sleep" /\ rPc' # "crashed"

\* One probe: an answer with a status other than 503 ends the loop with
\* success; a request that can't be created ends it with an error; a
\* transport failure or a 503 sends the loop to its sleep; a probe that gets
\* neither an answer nor an error goes on for ever.
ProbeStep ==
    Probed =>
        CASE lastProbe' = "other" -> rPc' = "built" /\ buildErr' = buildErr
          [] lastProbe' = "request" -> rPc' = "exit" /\ rExit' = 1 /\ buildErr'
          [] lastProbe' \in {"transport", "503"} ->
               rPc' = "sleep" /\ probes' = probes /\ slept' = slept
          [] OTHER -> rPc' = "hung" /\ probes' = probes /\ slept' = slept

\* One sleep: a second passes, and either the next probe follows or, after
\* probe number ProbeLimit, the loop ends with an error.
SleepStep ==
    Slept =>
        IF probes + 1 < ProbeLimit
          THEN rPc' = "waitServer" /\ probes' = probes + 1 /\ slept' = slept + 1
          ELSE rPc' = "exit" /\ rExit' = 1 /\ buildErr'

\* C26: WaitForServer makes at most ProbeLimit probes with one second of
\* sleep between each two: it returns success at the first probe answered
\* with a status other than 503, goes on after a transport failure, returns
\* an error after ProbeLimit probes without such an answer, and always
\* returns.
C26_BoundedSpacedTerminates ==
    /\ [](probes \in 0..(ProbeLimit - 1))
    /\ [](InWaitForServer => slept = probes)
    /\ [][ProbeStep /\ SleepStep]_vars
    /\ InWaitForServer ~> ~InWaitForServer

\* A probe got neither an answer nor an error: the runner waits in
\* WaitForServer for ever.
C26_WitnessHung ==
    /\ rPc = "hung"
    /\ lastProbe = "hang"
    /\ rAddr # ""

\* The list of conditions has one of type t with status True.
HasTrue(conds, t) ==
    \E i \in 1..Len(conds) : conds[i] = Cond(t, "True")

\* What the predicates are to accept: a pod with a condition Ready = True, a
\* route all of whose ingresses have a condition Admitted = True.
Accepted(obj) ==
    IF obj.kind = "Pod" THEN HasTrue(obj.conds, "Ready")
    ELSE \A i \in 1..Len(obj.ingress) : HasTrue(obj.ingress[i].conds, "Admitted")

\* C27: The snapshot of an Added or Modified event becomes the result of
\* the wait exactly when, for a pod, it has a Ready condition with status
\* True and, for a route, every ingress of its status has an Admitted
\* condition with status True, which a route without ingress does.
C27_ReadinessPredicates ==
    wSeen # <<>> =>
        LET e == wSeen[Len(wSeen)] IN
            e.type \in {"ADDED", "MODIFIED"} /\ e.obj.kind = wKind =>
                (Accepted(e.obj) <=> wObj = e.obj /\ wStops >= 1)

\* A route without ingress was taken as admitted.
C27_Witness ==
    /\ wKind = "Route"
    /\ wSeen = <<Event("ADDED", RouteNoIngress)>>
    /\ wObj = RouteNoIngress
    /\ wStops = 1

\* A route with one ingress admitted and one not was not taken as admitted.
C27_WitnessHalf ==
    /\ wKind = "Route"
    /\ wSeen = <<Event("ADDED", RouteHalfAdmitted)>>
    /\ wObj = NoObj
    /\ wPc = "returned"

\* --- the loop of Run
\* The binaries processed so far whose outcome is o.
WithOutcome(o) == {i \in 1..Len(outcomes) : outcomes[i] = o}

\* Run has returned to execute.
RunReturned == rPc = "destroy" \/ (rPc = "exit" /\ rDestroyCalls > 0)

\* C28: The failure counter of Run is the number of binaries for which a
\* result with an exit code other than zero was received; a binary that
\* passed, was skipped or whose send failed does not count.
C28_FailedCountsNonzero ==
    failed = Cardinality(WithOutcome("fail"))

\* Run returned after a binary that could not be read and one that failed.
C28_Witness ==
    /\ RunReturned
    /\ outcomes = <<"skipped", "fail">>
    /\ failed = 1

\* C29: No request is sent for a binary whose file could not be read, one is
\* sent for every other binary, and when Run returns from the loop every
\* binary found has been processed.
C29_ReadFailureSkips ==
    /\ \A i \in 1..Len(outcomes) :
           outcomes[i] = "skipped" <=> ~\E j \in 1..Len(sent) : sent[j] = binaries[i]
    /\ RunReturned /\ binaries # <<>> => Len(outcomes) = Len(binaries)

\* The first binary could not be read and the second was sent and passed.
C29_Witness ==
    /\ RunReturned
    /\ Len(binaries) = 2
    /\ outcomes = <<"skipped", "pass">>
    /\ sent = <<binaries[2]>>

\* --- malformed credentials
\* The positions of the spaces of an Authorization value.
Spaces(a) == {i \in 1..Len(a) : a[i] = Space}

\* The spellings of the authorization type `bearer` among AuthHeaders.
BearerSpellings == {StrBearer, StrLowerBearer, StrUpperBearer}

\* The value does not consist of two parts separated by one space, or the
\* first part is not a spelling of `bearer`.
Malformed(a) ==
    \/ Cardinality(Spaces(a)) # 1
    \/ \E i \in Spaces(a) : SubSeq(a, 1, i - 1) \notin BearerSpellings

\* The value contains the token somewhere.
Contains(a, tok) ==
    \E i \in 1..Len(a) : i + Len(tok) - 1 <= Len(a) /\ SubSeq(a, i, i + Len(tok) - 1) = tok

\* C30: A request to the endpoint with a malformed Authorization value is
\* answered 400 by the middleware and not forwarded, also when the value
\* contains the token of the server.
C30_MalformedIs400 ==
    \A h \in Handlers :
        ToEndpoint(h) /\ Malformed(hReq[h].auth) =>
            /\ hPc[h] = "done"
            /\ hResp[h].status = 400
            /\ hEff[h] = {}

\* A value of another type with the token of the server was answered 400.
C30_Witness ==
    /\ ToEndpoint(1)
    /\ hReq[1].auth = StrBasic \o <<Space>> \o srvToken
    /\ hResp[1].status = 400

\* A value of three parts, the second the token of the server, was answered 400.
C30_WitnessParts ==
    /\ ToEndpoint(1)
    /\ Cardinality(Spaces(hReq[1].auth)) = 2
    /\ Contains(hReq[1].auth, srvToken)
    /\ hResp[1].status = 400

\* --- the environment of the subprocess
\* The value of the variable `name` in os.Environ(), <<>> if it is not set.
EnvironValue(name) ==
    IF \E i \in 1..Len(eEnviron) : EnvKey(eEnviron[i]) = name
      THEN EnvValue(eEnviron[CHOOSE i \in 1..Len(eEnviron) : EnvKey(eEnviron[i]) = name])
      ELSE <<>>

\* C31: The subprocess is started with every variable of the request at the
\* value of the request, also when the server process defines a variable of
\* that name, and with every other variable of the server process unchanged;
\* no variable is passed twice.
C31_EnvOverlay ==
    ePc = "ran" =>
        /\ \A name \in EnvNames :
               Getenv(eChild, name) =
                   IF name \in DOMAIN eReqEnv THEN eReqEnv[name]
                   ELSE EnvironValue(name)
        /\ \A i, j \in 1..Len(eChild) :
               i # j => EnvKey(eChild[i][2]) # EnvKey(eChild[j][2])

\* The server process defines A and B, the request redefines A.
C31_Witness ==
    /\ ePc = "ran"
    /\ EnvironValue(<<"A">>) = <<"1">>
    /\ EnvironValue(<<"B">>) = <<"=", "1">>
    /\ DOMAIN eReqEnv = {<<"A">>}
    /\ eReqEnv[<<"A">>] = <<"2">>
    /\ Len(eChild) = 2

\* --- Destroy without Stop
\* C32: Destroy without a prior Stop never panics, whether the cleaner was
\* started or not, and when it is called while the timer is armed the project
\* is never deleted afterwards.
C32_DestroySafe ==
    /\ [](clnPc # "panic")
    /\ []((clnPc = "destroyed" /\ timer = "armed") => [](clnDeletes = <<>>))

\* C33: A wait returns exactly one of a snapshot and an error.
C33_SnapshotOrError ==
    wPc = "returned" => (wObj # NoObj <=> wErr = "nil")

\* --- the token of the server
\* C34: Once Build has returned the runner, the token the runner sends is
\* the token the server pod was started with.
C34_TokensAgree ==
    Provisioned /\ rPc \in {"built", "loop", "send", "destroy"} =>
        rToken = srvToken

\* --- the cleaner pod and the runner
\* The runner is in the loop of Run and has a binary left to run.
BinariesLeft == rPc \in {"loop", "send"} /\ bIdx <= Len(binaries)

\* C35: While the runner has binaries left to run, the cleaner pod has not
\* deleted the project.
C35_NoDeleteWhileRunning ==
    BinariesLeft => clnDeletes = <<>>

\* --- teardown
\* The create call of the project succeeded: Build went on to the next one.
ProjectCreated == "sa/server" \in createCalls

\* C36: When the run command exits after having created the project,
\* Runner.Destroy has been called exactly once.
C36_TeardownOnEveryPath ==
    rPc = "exit" /\ ProjectCreated => rDestroyCalls = 1

\* --- the work directory
\* The working directories that exist under the work root.
WorkDirs == {d \in DirIds : fs[d].exists}

\* C37, as stated: no working directory is ever removed, and every request
\* that passed authentication and parsing has added one.
C37_OneDirPerParsedRequest ==
    /\ [][WorkDirs \subseteq WorkDirs']_vars
    /\ [](\A h \in Handlers : hPc[h] = "done" /\ PassedParsing(h) => HasDir(h))

\* A step adds at most one working directory and removes none; a directory
\* is added exactly when a request that passed parsing gets its directory.
DirsOnlyGrow ==
    /\ WorkDirs \subseteq WorkDirs'
    /\ \A h \in Handlers :
           ~HasDir(h) /\ HasDir(h)' =>
               PassedParsing(h) /\ WorkDirs' \ WorkDirs = {hDir[h]}
    /\ WorkDirs' # WorkDirs => \E h \in Handlers : ~HasDir(h) /\ HasDir(h)'

\* C37: No working directory is ever removed. A request adds one directory
\* when it passed authentication and parsing and its identifier and directory
\* could be created, and none otherwise.
C37_DirectoriesOnlyGrow ==
    /\ [][DirsOnlyGrow]_vars
    /\ [](\A h \in Handlers :
              hPc[h] = "done" =>
                  (HasDir(h) <=> PassedParsing(h) /\ hResp[h] \notin AllocErrors))

\* Two requests, one after the other, have each left a directory behind.
C37_Witness ==
    /\ Cardinality(WorkDirs) = 2
    /\ nReq = 2
    /\ hPc[1] = "done"
    /\ hResp[1].status = 200

\* A request that passed parsing was answered without a directory.
C37_WitnessNoDir ==
    /\ hPc[1] = "done"
    /\ PassedParsing(1)
    /\ ~HasDir(1)
    /\ hResp[1] \in AllocErrors

\* The sandbox holds the user and the password the secret stores.
HeldEqualsSecret ==
    /\ dbSecret.exists
    /\ ~MissingOrEmpty(dbSecret.data, "username")
    /\ ~MissingOrEmpty(dbSecret.data, "password")
    /\ dbAdminUser = dbSecret.data["username"]
    /\ dbAdminPassword = dbSecret.data["password"]

\* The step that follows an "already exists" answer: with both keys present
\* and not empty, any success takes the user and the password of the existing
\* secret; with a key missing or empty the call returns an error.
ExistingSecretUsed ==
    dbPc = "get" =>
        /\ dbPc' = "pod" =>
              /\ dbAdminUser' = dbSecret.data["username"]
              /\ dbAdminPassword' = dbSecret.data["password"]
        /\ (MissingOrEmpty(dbSecret.data, "username")
              \/ MissingOrEmpty(dbSecret.data, "password")) =>
              dbPc' = "idle" /\ dbErr' = "error" /\ ~dbCredsOk'

\* C38: when the creation of the credentials secret answers "already exists"
\* the generated password is discarded and the user and password of the
\* existing secret are used, a missing or empty key is an error, and after
\* ensureDBCredentials returned nil the credentials of the sandbox equal the
\* ones the secret stores.
C38_CredentialsFromSecret ==
    /\ [](dbCredsOk => HeldEqualsSecret)
    /\ [][ExistingSecretUsed]_vars

\* ensureDBCredentials returned nil with the password of an existing secret,
\* which is not the one it generated.
C38_Witness ==
    /\ dbCredsOk
    /\ dbCalls = 1
    /\ dbAdminPassword # dbId
    /\ dbAdminPassword = dbSecret.data["password"]

\* The existing secret has no usable password and the call failed after the
\* user was taken from the secret.
C38_WitnessMissingKey ==
    /\ dbPc = "idle"
    /\ dbErr = "error"
    /\ dbCalls = 1
    /\ ~dbCredsOk
    /\ dbSecret.exists
    /\ dbObjects = {}
    /\ MissingOrEmpty(dbSecret.data, "password")
    /\ dbAdminUser = "admin"

\* The positions of Sandbox.Database at which ensureDBServer is provisioning.
Provisioning == dbPc \in {"uuid", "secret", "get", "pod", "service", "wait", "ping", "sequence"}

\* dbReady is set by a call in which the pod, the service, the readiness wait,
\* the ping and the sequence all returned no error; once set it stays set and
\* nothing of the database is created again; a call made while it is not set
\* starts provisioning from the beginning.
ProvisionedOnce ==
    /\ (~dbReady /\ dbReady') => dbSteps' = AllSteps /\ dbPc = "sequence"
    /\ dbReady => dbReady' /\ dbObjects' = dbObjects /\ dbSecret' = dbSecret
                  /\ dbProvisions' = dbProvisions
    /\ (dbPc = "idle" /\ dbPc' # "idle") =>
          dbPc' = IF dbReady THEN "admin" ELSE "uuid"
    /\ (Provisioning /\ dbPc' = "idle") => ~dbReady' /\ dbErr' = "error"

\* C39: the database server is provisioned at the first Database() call and at
\* most once per Sandbox: dbReady becomes true only after pod, service,
\* readiness wait, ping and sequence creation all succeeded, every later call
\* skips provisioning, and a failed attempt leaves dbReady false so that the
\* next call tries again.
C39_ProvisionedAtMostOnce ==
    /\ [](dbCalls = 0 => ~dbReady /\ dbObjects = {})
    /\ [](dbProvisions <= 1 /\ (dbReady <=> dbProvisions = 1))
    /\ [](dbReady => ~Provisioning /\ AllSteps \subseteq dbObjects \cup {"wait", "ping", "sequence"})
    /\ [][ProvisionedOnce]_vars

\* The first call failed before dbReady was set, and the second call went
\* through every step and provisioned the server.
C39_Witness ==
    /\ dbCalls = 2
    /\ dbReady
    /\ dbSteps = AllSteps
    /\ dbProvisions = 1

\* The first call provisioned the server and the second call skipped it.
C39_WitnessSkip ==
    /\ dbCalls = 2
    /\ dbReady
    /\ dbSteps = {}
    /\ dbPc = "idle"
    /\ dbErr = "nil"

====
